---- MODULE Spec2Model ----
(***************************************************************************)
(* Model of the Python binding layer of Slint:                             *)
(*   - slint/models.py : ListModel, ModelIterator                          *)
(*   - slint/loop.py   : SlintEventLoop, _SlintSelector                    *)
(*   - slint/api.py    : run_event_loop, quit_event_loop, load_file,       *)
(*                       CompileError, Component, _build_class,            *)
(*                       _build_struct, SlintAutoLoader, callback          *)
(*   - slint/codegen/generator.py : generate_project, _compile_slint       *)
(* Python values: lists are sequences (row r of Python is element r+1),    *)
(* None is the empty tuple and an optional integer n the tuple <<n>>.      *)
(***************************************************************************)
EXTENDS Integers, Sequences, FiniteSets, Bags, TLC

\* ------------------------------------------------------------------------
\* Bounds
\* ------------------------------------------------------------------------
MaxLen == 3          \* longest backing list of a ListModel
MaxVal == 2          \* row values are 1..MaxVal
MaxKey == 2          \* integer keys and slice bounds range over -MaxKey..MaxKey
MaxStep == 2         \* slice steps range over -MaxStep..MaxStep
MaxProgLen == 2      \* longest main coroutine, in operations
MaxIdleQuits == 1    \* quit_event_loop() calls made while no loop runs
MaxUserCalls == 1    \* loop.call_later calls made by user callbacks
MaxFd == 1           \* file descriptors are 1..MaxFd
MaxDiags == 2        \* most diagnostics of one compilation
MaxFieldVal == 1     \* struct fields and properties hold 0..MaxFieldVal
MaxEntries == 2      \* most directory entries of the file system
MaxIdLen == 3        \* identifiers have 1..MaxIdLen characters
MaxRuns == 3         \* run_forever / run_until_complete calls on one loop
MaxHandles == 2      \* handles one loop hands out through call_later
MaxFiles == 2        \* most .slint files of one generate_project run

None == <<>>                 \* Python None; an optional integer n is <<n>>
Some(n) == <<n>>
Values == 1..MaxVal
Keys == (0 - MaxKey)..MaxKey
Steps == (0 - MaxStep)..MaxStep

\* ------------------------------------------------------------------------
\* State of a ListModel (slint/models.py)
\* ------------------------------------------------------------------------
VARIABLES
    \* -- the caller of run_event_loop (api.py) and the native core --
    phase,                  \* "idle", "running" (inside core.run_event_loop),
                            \* "core_returned", "closing" (Runner.close), "returned"
    outcome,                \* what run_until_complete / run_event_loop produced
    main_coro,              \* the main_coro argument, a sequence of operations
    quit_event,             \* api.quit_event.is_set()
    quit_waiters,           \* tasks waiting in api.quit_event.wait(), in order
    core_quit,              \* the native loop has been asked to quit
    \* -- SlintEventLoop (loop.py) --
    core_loop_started,      \* _core_loop_started
    core_loop_running,      \* _core_loop_running
    is_running,             \* _is_running
    stopping,               \* _stopping
    stop_run_forever_event, \* stop_run_forever_event.is_set()
    soon_tasks,             \* _soon_tasks
    tasks_now,              \* tasks_now of a _flush_soon_tasks in progress
    timers,                 \* started single-shot core.Timer objects
    ready,                  \* asyncio's own _ready queue
    scheduled,              \* asyncio's own _scheduled timer heap
    \* -- _SlintSelector (loop.py) --
    adapters,               \* fds with a core.AsyncAdapter
    base_fds,               \* fds registered with _base_selector
    \* -- asyncio tasks --
    tstate,                 \* per task: none, scheduled, waiting, done, failed, cancelled
    main_pc,                \* next operation of the main coroutine
    inner_pc,               \* position of run_inner
    waiter_done,            \* the waiter future of asyncio.wait is done
    stop_loop_attached,     \* run_until_complete's stop_loop is a done callback of its future
    \* -- history --
    sched_order,            \* ids of the pending call_soon handles, oldest first
    served,                 \* which scheduler served timers and fd readiness, per loop state
    quit_calls,             \* completed calls of slint.quit_event_loop()
    core_calls,             \* calls of core.quit_event_loop() made by Python code
    native_quit,            \* the native loop was quit directly, not through stop()
    user_calls,             \* calls of loop.call_later made by user callbacks
    invoked,                \* invocations of an async callback method: what
                            \* each returned and what it left behind
    \* -- ListModel (models.py) --
    list,        \* ListModel.list, the backing Python list
    notified,    \* notifications the last operation sent to the native model base
    last_op      \* the last operation: its arguments, the list before it, its outcome

modelvars == <<list, notified, last_op>>

loopvars == <<phase, outcome, main_coro, quit_event, quit_waiters, core_quit,
              core_loop_started, core_loop_running, is_running, stopping,
              stop_run_forever_event, soon_tasks, tasks_now, timers, ready,
              scheduled, adapters, base_fds, tstate, main_pc, inner_pc,
              waiter_done, stop_loop_attached, sched_order, served, quit_calls,
              core_calls, native_quit, user_calls, invoked>>

\* ------------------------------------------------------------------------
\* State of the API layer (slint/api.py, slint/codegen/generator.py)
\* ------------------------------------------------------------------------
VARIABLES
    api_op,      \* the last call of load_file, of a struct class or of a
                 \* component class: its arguments and its outcome
    prototype,   \* the fields of the struct prototype a struct class shares
    instance,    \* the component instance under study: the subclass it was
                 \* built from, its native callbacks and properties, its
                 \* Python instance dictionary
    \* -- SlintAutoLoader (api.py) --
    sys_path,    \* sys.path: the directories of the search path, in order
    fs,          \* the file system: the entries of each directory
    loader_dict, \* the instance dictionary of the loader: cached attributes
    loader_op,   \* the last attribute lookup on the loader and its outcome
    missed,      \* names whose lookup has returned None
    \* -- generate_project (codegen/generator.py) --
    gen_op,      \* the last run of generate_project: its inputs and outcome
    \* -- Component.run (api.py) --
    run_pc,      \* where Component.run() is: "none", "in_loop", "returned"
    window_log,  \* what has happened to the window and the loop, in order
    \* -- normalize_identifier (codegen/utils.py) --
    util_op,     \* the last call of normalize_identifier and its outcome
    \* -- _SlintSelector (loop.py) --
    selector,    \* the selector under study: fd_to_selector_key, adapters,
                 \* the base selector's keys, the wake-up socket's state
    sel_op,      \* the last call on the selector and its outcome
    sel_given,   \* per registered fd, the events and data last given to
                 \* register or modify
    \* -- SlintEventLoop as an object its caller drives (loop.py) --
    evloop,      \* the fields of the SlintEventLoop
    run,         \* the run_forever / run_until_complete call in progress
    hist,        \* the calls made so far and the outcome of the last one
    handles,     \* the handles call_later has returned
    asyncio_hooks \* the interpreter's asyncio: does BaseEventLoop.run_forever
                 \* call _run_forever_setup / _run_forever_cleanup

loadervars == <<sys_path, fs, loader_dict, loader_op, missed>>
genvars == <<gen_op>>
winvars == <<run_pc, window_log>>
utilvars == <<util_op>>
selvars == <<selector, sel_op, sel_given>>
objvars == <<evloop, run, hist, handles, asyncio_hooks>>
restvars == <<utilvars, selvars, objvars>>
apivars == <<api_op, prototype, instance, loadervars, genvars>>

vars == <<loopvars, modelvars, apivars, winvars, restvars>>

\* no call of the API layer has been made
NoCall == [op |-> "none"]

\* a struct MyData { name, age } with values 0..MaxFieldVal
Fields == {"name", "age"}
FieldVals == 0..MaxFieldVal

\* no component has been instantiated
NoInstance == [constructed |-> FALSE]

InitLoaderIdle ==
    /\ sys_path = <<>> /\ fs = {} /\ loader_dict = {}
    /\ loader_op = NoCall /\ missed = {}

InitGenIdle == gen_op = NoCall

InitApiIdle ==
    /\ api_op = NoCall
    /\ prototype = [f \in Fields |-> 0]
    /\ instance = NoInstance
    /\ InitLoaderIdle
    /\ InitGenIdle

\* Component.run() has not been called
InitWindow == run_pc = "none" /\ window_log = <<>>

\* no call of the codegen utilities has been made
InitUtilIdle == util_op = NoCall

\* no selector is under study
NoSelector == [created |-> FALSE]
InitSelectorIdle == selector = NoSelector /\ sel_op = NoCall /\ sel_given = <<>>

\* no event loop object is under study
InitObjIdle ==
    /\ evloop = NoCall /\ run = NoCall /\ hist = NoCall /\ handles = <<>>
    /\ asyncio_hooks = FALSE

InitRestIdle == InitUtilIdle /\ InitSelectorIdle /\ InitObjIdle

\* ------------------------------------------------------------------------
\* Event loop: tasks, coroutines and the shapes of handles and timers
\* ------------------------------------------------------------------------
\* run_inner, main_coro, quit_task, loop_stopper, a task main_coro spawns
\* and the task of an async callback method
Tasks == {"inner", "main", "quit", "stopper", "child", "callback"}
TaskOrder == <<"inner", "main", "quit", "stopper", "child", "callback">>
Finished == {"done", "failed", "cancelled"}
Pending == {"scheduled", "waiting"}

\* what a main coroutine does, step by step:
\*   quit        slint.quit_event_loop()
\*   core_quit   core.quit_event_loop(), the native call
\*   timer_quit  slint.Timer.single_shot(..., slint.quit_event_loop)
\*   spawn_quit  loop.create_task of a coroutine that calls slint.quit_event_loop()
\*   invoke_async  instance.invoke_call_void(): Slint invokes an async
\*               method decorated with @slint.callback
\*   yield       await asyncio.sleep(0)
\*   sleep       await asyncio.sleep(d), d > 0
\*   raise       raise RuntimeError("Boo")
\*   spin        while True: await asyncio.sleep(0)
\*   sleep_loop  while True: await asyncio.sleep(d)
Ops == {"quit", "core_quit", "timer_quit", "spawn_quit", "invoke_async",
        "yield", "sleep", "raise", "spin", "sleep_loop"}
LastOps == {"raise", "spin", "sleep_loop"}

NoCoro == <<"no_coro">>
Programs ==
    { p \in UNION { [1..n -> Ops] : n \in 0..MaxProgLen } :
        /\ \A i \in 1..(Len(p) - 1) : p[i] \notin LastOps
        /\ Cardinality({ i \in 1..Len(p) : p[i] = "spawn_quit" }) <= 1
        /\ Cardinality({ i \in 1..Len(p) : p[i] = "invoke_async" }) <= 1 }
Coros == {NoCoro} \cup Programs

FDs == 1..MaxFd

Handle(id, cb, arg) == [id |-> id, cb |-> cb, arg |-> arg]
\* single-shot timers of one callback are interchangeable: a bag of them
Timer(cb, arg) == [cb |-> cb, arg |-> arg]
OneTimer(cb, arg) == SetToBag({Timer(cb, arg)})
Served(what, by, state) == [what |-> what, by |-> by, state |-> state]

SeqIds(s) == { s[i].id : i \in 1..Len(s) }
FreeId(used) == CHOOSE i \in 1..(Cardinality(used) + 1) :
                    i \notin used /\ \A j \in 1..(i - 1) : j \in used

RECURSIVE RemoveFirst(_, _)
RemoveFirst(s, x) ==
    IF s = <<>> THEN <<>>
    ELSE IF Head(s) = x THEN Tail(s)
    ELSE <<Head(s)>> \o RemoveFirst(Tail(s), x)

RECURSIVE Reverse(_)
Reverse(s) == IF s = <<>> THEN <<>> ELSE Append(Reverse(Tail(s)), Head(s))

\* the loop state as one record, so that the calls of a handler compose
Cur ==
    [phase |-> phase, outcome |-> outcome, main_coro |-> main_coro,
     quit_event |-> quit_event, quit_waiters |-> quit_waiters,
     core_quit |-> core_quit, core_loop_started |-> core_loop_started,
     core_loop_running |-> core_loop_running, is_running |-> is_running,
     stopping |-> stopping, stop_run_forever_event |-> stop_run_forever_event,
     soon_tasks |-> soon_tasks, tasks_now |-> tasks_now, timers |-> timers,
     ready |-> ready, scheduled |-> scheduled, adapters |-> adapters,
     base_fds |-> base_fds, tstate |-> tstate, main_pc |-> main_pc,
     inner_pc |-> inner_pc, waiter_done |-> waiter_done,
     stop_loop_attached |-> stop_loop_attached, sched_order |-> sched_order,
     served |-> served, quit_calls |-> quit_calls, core_calls |-> core_calls,
     native_quit |-> native_quit, user_calls |-> user_calls,
     invoked |-> invoked]

Commit(S) ==
    /\ phase' = S.phase /\ outcome' = S.outcome /\ main_coro' = S.main_coro
    /\ quit_event' = S.quit_event /\ quit_waiters' = S.quit_waiters
    /\ core_quit' = S.core_quit /\ core_loop_started' = S.core_loop_started
    /\ core_loop_running' = S.core_loop_running /\ is_running' = S.is_running
    /\ stopping' = S.stopping
    /\ stop_run_forever_event' = S.stop_run_forever_event
    /\ soon_tasks' = S.soon_tasks /\ tasks_now' = S.tasks_now
    /\ timers' = S.timers /\ ready' = S.ready /\ scheduled' = S.scheduled
    /\ adapters' = S.adapters /\ base_fds' = S.base_fds
    /\ tstate' = S.tstate /\ main_pc' = S.main_pc /\ inner_pc' = S.inner_pc
    /\ waiter_done' = S.waiter_done
    /\ stop_loop_attached' = S.stop_loop_attached
    /\ sched_order' = S.sched_order /\ served' = S.served
    /\ quit_calls' = S.quit_calls /\ core_calls' = S.core_calls
    /\ native_quit' = S.native_quit /\ user_calls' = S.user_calls
    /\ invoked' = S.invoked

\* ------------------------------------------------------------------------
\* SlintEventLoop (loop.py)
\* ------------------------------------------------------------------------
\* before the core loop has started, while it runs, after it has returned
LoopState(S) ==
    IF ~S.core_loop_started THEN "before"
    ELSE IF S.core_loop_running THEN "running" ELSE "after"

\* the guard of call_later, call_soon and run_until_complete: the core loop
\* schedules unless it has started and is no longer running
UsesCoreScheduler_always(started, running) == TRUE

UsesCoreScheduler(started, running) == ~(started /\ ~running)

\* SlintEventLoop.call_later
call_later(S, cb, arg) ==
    IF UsesCoreScheduler(S.core_loop_started, S.core_loop_running)
    THEN [S EXCEPT
            !.timers = @ (+) OneTimer(cb, arg),
            !.served = @ \cup {Served("timer", "core", LoopState(S))}]
    ELSE [S EXCEPT
            !.scheduled = @ (+) OneTimer(cb, arg),
            !.served = @ \cup {Served("timer", "asyncio", LoopState(S))}]

\* SlintEventLoop.call_soon
call_soon(S, cb, arg) ==
    IF UsesCoreScheduler(S.core_loop_started, S.core_loop_running)
    THEN LET id == FreeId(SeqIds(S.soon_tasks) \cup SeqIds(S.tasks_now))
         IN  call_later([S EXCEPT !.soon_tasks = Append(@, Handle(id, cb, arg)),
                                  !.sched_order = Append(@, id)],
                        "flush", "")
    ELSE [S EXCEPT
            !.ready = Append(@, Handle(FreeId(SeqIds(S.ready)), cb, arg)),
            !.served = @ \cup {Served("timer", "asyncio", LoopState(S))}]

\* SlintEventLoop._flush_soon_tasks, up to its loop over tasks_now
flush_soon_tasks_reversed(S) ==
    [S EXCEPT !.tasks_now = Reverse(S.soon_tasks), !.soon_tasks = <<>>]

flush_soon_tasks(S) ==
    [S EXCEPT !.tasks_now = S.soon_tasks, !.soon_tasks = <<>>]

\* asyncio.Event.set on a waiter's future: the waiting task is woken by call_soon
RECURSIVE WakeAll(_, _)
WakeAll(S, ws) ==
    IF ws = <<>> THEN S
    ELSE WakeAll(call_soon([S EXCEPT !.tstate[Head(ws)] = "scheduled"],
                           "step", Head(ws)),
                 Tail(ws))

\* SlintEventLoop.stop
stop(S) ==
    LET S1 == IF S.core_loop_started /\ S.core_loop_running
                 /\ ~S.stop_run_forever_event
              THEN WakeAll([S EXCEPT !.stop_run_forever_event = TRUE],
                           IF S.tstate["stopper"] = "waiting"
                           THEN <<"stopper">> ELSE <<>>)
              ELSE S
    IN  [S1 EXCEPT !.stopping = TRUE]

\* the tail of SlintEventLoop.run_until_complete, after run_forever returned
run_until_complete_result_base(fut_state, stop_set) ==
    IF fut_state = "done" THEN "None"
    ELSE IF fut_state = "failed" THEN "Boo"
    ELSE "RuntimeError"

run_until_complete_result(fut_state, stop_set) ==
    IF fut_state = "done" THEN "None"
    ELSE IF fut_state = "failed" THEN "Boo"
    ELSE IF stop_set THEN "RuntimeError"
    ELSE "None"

\* ------------------------------------------------------------------------
\* api.py: quit_event_loop and the coroutines of run_event_loop
\* ------------------------------------------------------------------------
\* slint.quit_event_loop(): quit_event.set()
quit_event_loop(S) ==
    LET S1 == IF S.quit_event THEN S
              ELSE WakeAll([S EXCEPT !.quit_event = TRUE, !.quit_waiters = <<>>],
                           S.quit_waiters)
    IN  [S1 EXCEPT !.quit_calls = @ + 1]

\* core.quit_event_loop() called from Python
core_quit_event_loop(S) ==
    [S EXCEPT !.core_quit = TRUE, !.core_calls = @ + 1]

\* a task finishes: its done callbacks are scheduled with call_soon
\* (stop_loop on run_until_complete's future, asyncio.wait's _on_completion)
FinishTask(S, t, how) ==
    LET S1 == [S EXCEPT !.tstate[t] = how] IN
    IF t = "inner"
    THEN (IF S.stop_loop_attached THEN call_soon(S1, "stop_loop", "") ELSE S1)
    ELSE IF t \in {"main", "quit"} /\ S.inner_pc = "wait"
         THEN call_soon(S1, "on_completion", t)
         ELSE S1

\* asyncio.wait's _on_completion: FIRST_COMPLETED resolves the waiter once
on_completion(S) ==
    IF S.waiter_done THEN S
    ELSE call_soon([S EXCEPT !.waiter_done = TRUE, !.tstate["inner"] = "scheduled"],
                   "step", "inner")

\* run_inner: after asyncio.wait returned because main_task is done,
\* does it still await quit_event?
run_inner_returns_with_main(quit_pending) == FALSE

run_inner_awaits_quit(quit_pending) == quit_pending

\* one step of run_inner
StepInner(S) ==
    IF S.inner_pc = "start"
    THEN LET S1 == call_soon([S EXCEPT !.tstate["quit"] = "scheduled"], "step", "quit")
             S2 == IF S.main_coro # NoCoro
                   THEN call_soon([S1 EXCEPT !.tstate["main"] = "scheduled"],
                                  "step", "main")
                   ELSE S1
         IN  [S2 EXCEPT !.tstate["inner"] = "waiting", !.inner_pc = "wait",
                        !.waiter_done = FALSE]
    ELSE IF S.inner_pc = "wait"
    THEN LET S1 == [S EXCEPT !.inner_pc = "after_wait"]
             main_in_done == S.main_coro # NoCoro /\ S.tstate["main"] \in Finished
             quit_pending == S.tstate["quit"] \notin Finished
         IN  IF main_in_done /\ S.tstate["main"] = "failed"
             THEN FinishTask(S1, "inner", "failed")
             ELSE IF main_in_done /\ run_inner_awaits_quit(quit_pending)
                       /\ ~S.quit_event
             THEN [S1 EXCEPT !.tstate["inner"] = "waiting",
                             !.inner_pc = "wait_quit",
                             !.quit_waiters = Append(@, "inner")]
             ELSE FinishTask(S1, "inner", "done")
    ELSE FinishTask([S EXCEPT !.inner_pc = "end"], "inner", "done")

\* quit_task: quit_event.wait()
StepQuit(S) ==
    IF S.quit_event THEN FinishTask(S, "quit", "done")
    ELSE [S EXCEPT !.tstate["quit"] = "waiting",
                   !.quit_waiters = Append(@, "quit")]

\* loop_stopper of run_forever
StepStopper(S) ==
    IF S.stop_run_forever_event
    THEN FinishTask(core_quit_event_loop(S), "stopper", "done")
    ELSE [S EXCEPT !.tstate["stopper"] = "waiting"]

\* the task main_coro spawned
StepChild(S) == FinishTask(quit_event_loop(S), "child", "done")

\* the body of the async callback method
StepCallback(S) == FinishTask(S, "callback", "done")

\* is a step of the task among the handles the loop still has to run?
StepPending(S, t) ==
    \/ \E i \in 1..Len(S.soon_tasks) :
            S.soon_tasks[i].cb = "step" /\ S.soon_tasks[i].arg = t
    \/ \E i \in 1..Len(S.ready) : S.ready[i].cb = "step" /\ S.ready[i].arg = t

Invocation(S, ret) ==
    [ret |-> ret, body_ran |-> S.tstate["callback"] = "done",
     scheduled |-> StepPending(S, "callback")]

\* run_as_task of _callback_decorator: loop.create_task(callable(...)),
\* nothing is returned
run_as_task_eager(S) ==
    LET S1 == StepCallback([S EXCEPT !.tstate["callback"] = "scheduled"])
    IN  [S1 EXCEPT !.invoked = Append(@, Invocation(S1, None))]

run_as_task(S) ==
    LET S1 == call_soon([S EXCEPT !.tstate["callback"] = "scheduled"],
                        "step", "callback")
    IN  [S1 EXCEPT !.invoked = Append(@, Invocation(S1, None))]

\* main_coro runs until it suspends or ends
RECURSIVE StepMain(_)
StepMain(S) ==
    LET pc == S.main_pc
        N  == [S EXCEPT !.main_pc = pc + 1]
    IN  IF pc > Len(S.main_coro) THEN FinishTask(S, "main", "done")
        ELSE CASE S.main_coro[pc] = "quit" -> StepMain(quit_event_loop(N))
               [] S.main_coro[pc] = "core_quit" ->
                    StepMain([core_quit_event_loop(N) EXCEPT !.native_quit = TRUE])
               [] S.main_coro[pc] = "timer_quit" ->
                    StepMain([N EXCEPT !.timers = @ (+) OneTimer("user_quit", "")])
               [] S.main_coro[pc] = "spawn_quit" ->
                    StepMain(call_soon([N EXCEPT !.tstate["child"] = "scheduled"],
                                       "step", "child"))
               [] S.main_coro[pc] = "invoke_async" -> StepMain(run_as_task(N))
               [] S.main_coro[pc] = "yield" ->
                    call_soon([N EXCEPT !.tstate["main"] = "scheduled"], "step", "main")
               [] S.main_coro[pc] = "sleep" ->
                    call_later([N EXCEPT !.tstate["main"] = "waiting"], "sleep", "main")
               [] S.main_coro[pc] = "raise" -> FinishTask(N, "main", "failed")
               [] S.main_coro[pc] = "spin" ->
                    call_soon([S EXCEPT !.tstate["main"] = "scheduled"], "step", "main")
               [] S.main_coro[pc] = "sleep_loop" ->
                    call_later([S EXCEPT !.tstate["main"] = "waiting"], "sleep", "main")

StepTask(S, t) ==
    CASE t = "inner" -> StepInner(S)
      [] t = "main" -> StepMain(S)
      [] t = "quit" -> StepQuit(S)
      [] t = "stopper" -> StepStopper(S)
      [] t = "child" -> StepChild(S)
      [] t = "callback" -> StepCallback(S)

\* Handle._run of a handle
RunCallback(S, h) ==
    CASE h.cb = "step" -> StepTask(S, h.arg)
      [] h.cb = "on_completion" -> on_completion(S)
      [] h.cb = "stop_loop" -> stop(S)
      [] OTHER -> S

\* Task.cancel as Runner.close calls it: a task that waits for a future is
\* woken through call_soon; a task whose step is already scheduled only
\* gets its must-cancel flag
CancelTask(S, t) ==
    IF S.tstate[t] = "waiting"
    THEN call_soon([S EXCEPT !.tstate[t] = "scheduled",
                             !.quit_waiters = SelectSeq(@, LAMBDA w : w # t),
                             !.waiter_done = IF t = "inner" /\ S.inner_pc = "wait"
                                             THEN TRUE ELSE @],
                   "step", t)
    ELSE S

RECURSIVE CancelAll(_, _)
CancelAll(S, ts) ==
    IF ts = <<>> THEN S ELSE CancelAll(CancelTask(S, Head(ts)), Tail(ts))

\* ------------------------------------------------------------------------
\* Event loop: initial state and operations
\* ------------------------------------------------------------------------
\* the ListModel of the model specification is not part of the event loop
InitModelIdle ==
    /\ list = <<>> /\ notified = <<>>
    /\ last_op = [op |-> "init", key |-> [kind |-> "int", i |-> 0], value |-> 0,
                  before |-> <<>>, status |-> "ok",
                  out |-> [len |-> 0, rows |-> <<>>]]

InitLoop ==
    /\ phase = "idle" /\ outcome = "none" /\ main_coro = NoCoro
    /\ quit_event = FALSE /\ quit_waiters = <<>> /\ core_quit = FALSE
    /\ core_loop_started = FALSE /\ core_loop_running = FALSE
    /\ is_running = FALSE /\ stopping = FALSE
    /\ stop_run_forever_event = FALSE
    /\ soon_tasks = <<>> /\ tasks_now = <<>> /\ timers = EmptyBag
    /\ ready = <<>> /\ scheduled = EmptyBag /\ adapters = {} /\ base_fds = {}
    /\ tstate = [t \in Tasks |-> "none"]
    /\ main_pc = 1 /\ inner_pc = "start" /\ waiter_done = FALSE
    /\ stop_loop_attached = FALSE
    /\ sched_order = <<>> /\ served = {} /\ quit_calls = 0 /\ core_calls = 0
    /\ native_quit = FALSE /\ user_calls = 0 /\ invoked = <<>>

\* slint.quit_event_loop() while no event loop runs
QuitWhileIdle ==
    /\ phase = "idle"
    /\ quit_calls < MaxIdleQuits
    /\ Commit(quit_event_loop(Cur))
    /\ UNCHANGED <<modelvars, apivars, winvars, restvars>>

\* run_event_loop(main_coro) up to the entry into core.run_event_loop():
\* a fresh quit_event, Runner.run creates the task of run_inner,
\* run_until_complete attaches stop_loop, run_forever sets the flags and
\* creates the loop_stopper task
run_event_loop(S, coro) ==
    LET S0 == [S EXCEPT !.quit_event = FALSE, !.main_coro = coro]
        S1 == call_soon([S0 EXCEPT !.tstate["inner"] = "scheduled"],
                        "step", "inner")
        S2 == [S1 EXCEPT !.stop_loop_attached = TRUE, !.is_running = TRUE,
                         !.core_loop_started = TRUE,
                         !.core_loop_running = TRUE,
                         !.stop_run_forever_event = FALSE]
        S3 == call_soon([S2 EXCEPT !.tstate["stopper"] = "scheduled"],
                        "step", "stopper")
    IN  [S3 EXCEPT !.phase = "running"]

RunEventLoop ==
    /\ phase = "idle"
    /\ \E coro \in Coros : Commit(run_event_loop(Cur, coro))
    /\ UNCHANGED <<modelvars, apivars, winvars, restvars>>

InCallback == tasks_now # <<>>

\* the native loop fires a single-shot timer: timer_done_cb of call_later,
\* or the callback of a slint.Timer
TimerFires ==
    /\ phase = "running" /\ ~InCallback
    /\ \E t \in BagToSet(timers) :
        LET S0 == [Cur EXCEPT !.timers = @ (-) OneTimer(t.cb, t.arg)]
        IN  Commit(CASE t.cb = "flush" -> flush_soon_tasks(S0)
                     [] t.cb = "sleep" ->
                          call_soon([S0 EXCEPT !.tstate[t.arg] = "scheduled"],
                                    "step", t.arg)
                     [] t.cb = "user_quit" -> quit_event_loop(S0)
                     [] OTHER -> S0)
    /\ UNCHANGED <<modelvars, apivars, winvars, restvars>>

\* _flush_soon_tasks runs the next handle of tasks_now
FlushRunsHandle ==
    /\ phase = "running" /\ InCallback
    /\ Commit(RunCallback([Cur EXCEPT !.tasks_now = Tail(@),
                                      !.sched_order = RemoveFirst(@, Head(tasks_now).id)],
                          Head(tasks_now)))
    /\ UNCHANGED <<modelvars, apivars, winvars, restvars>>

\* the user closes the last window: the native loop quits on its own
WindowClosed ==
    /\ phase = "running" /\ ~InCallback /\ ~core_quit
    /\ Commit([Cur EXCEPT !.core_quit = TRUE, !.native_quit = TRUE])
    /\ UNCHANGED <<modelvars, apivars, winvars, restvars>>

\* core.run_event_loop() returns: the finally block of run_forever, then
\* the tail of run_until_complete
CoreLoopReturns ==
    /\ phase = "running" /\ ~InCallback /\ core_quit
    /\ Commit([Cur EXCEPT
            !.core_loop_running = FALSE, !.is_running = FALSE,
            !.stopping = FALSE, !.stop_loop_attached = FALSE,
            !.outcome = run_until_complete_result(tstate["inner"],
                                                  stop_run_forever_event),
            !.phase = "core_returned"])
    /\ UNCHANGED <<modelvars, apivars, winvars, restvars>>

\* Runner.close: _cancel_all_tasks cancels every task that is not done and
\* runs the loop until they are
RunnerCloses ==
    /\ phase = "core_returned"
    /\ LET S1 == CancelAll(Cur, TaskOrder)
       IN  Commit([S1 EXCEPT !.phase =
                IF \A t \in Tasks : tstate[t] \notin Pending
                THEN "returned" ELSE "closing"])
    /\ UNCHANGED <<modelvars, apivars, winvars, restvars>>

\* asyncio's _run_once runs the next handle of _ready; a task step there
\* delivers the CancelledError
BaseRunsHandle ==
    /\ phase = "closing" /\ ready # <<>>
    /\ LET h  == Head(ready)
           S0 == [Cur EXCEPT !.ready = Tail(@)]
       IN  Commit(IF h.cb = "step"
                  THEN FinishTask([S0 EXCEPT !.inner_pc =
                                      IF h.arg = "inner" THEN "end" ELSE @],
                                  h.arg, "cancelled")
                  ELSE RunCallback(S0, h))
    /\ UNCHANGED <<modelvars, apivars, winvars, restvars>>

\* asyncio's _run_once moves a due timer of _scheduled to _ready
BaseTimerDue ==
    /\ phase = "closing"
    /\ \E t \in BagToSet(scheduled) :
        Commit([Cur EXCEPT !.scheduled = @ (-) OneTimer(t.cb, t.arg),
                           !.ready = Append(@, Handle(FreeId(SeqIds(ready)), t.cb, t.arg))])
    /\ UNCHANGED <<modelvars, apivars, winvars, restvars>>

\* every cancelled task is done: Runner.close and run_event_loop return
RunEventLoopReturns ==
    /\ phase = "closing" /\ ready = <<>>
    /\ \A t \in Tasks : tstate[t] \notin Pending
    /\ Commit([Cur EXCEPT !.phase = "returned"])
    /\ UNCHANGED <<modelvars, apivars, winvars, restvars>>

\* a user callback calls loop.call_later
UserCallLater ==
    /\ \/ phase = "running" /\ ~InCallback
       \/ phase = "closing"
    /\ user_calls < MaxUserCalls
    /\ Commit(call_later([Cur EXCEPT !.user_calls = @ + 1], "user_cb", ""))
    /\ UNCHANGED <<modelvars, apivars, winvars, restvars>>

\* _SlintSelector.register, as loop.add_reader calls it
Register ==
    /\ \/ phase = "running" /\ ~InCallback
       \/ phase = "closing"
    /\ \E fd \in FDs :
        /\ fd \notin adapters
        /\ Commit([Cur EXCEPT !.adapters = @ \cup {fd}, !.base_fds = @ \cup {fd}])
    /\ UNCHANGED <<modelvars, apivars, winvars, restvars>>

\* _SlintSelector.read_notify: the AsyncAdapter reports the fd readable
ReadNotify ==
    /\ phase = "running" /\ ~InCallback
    /\ \E fd \in adapters :
        Commit([Cur EXCEPT !.served = @ \cup {Served("io", "core", LoopState(Cur))}])
    /\ UNCHANGED <<modelvars, apivars, winvars, restvars>>

\* _SlintSelector.select in asyncio's _run_once: the base selector reports
\* the fd readable and the reader handle is queued
Select ==
    /\ phase = "closing"
    /\ \E fd \in base_fds :
        /\ \A i \in 1..Len(ready) : ready[i].cb # "reader"
        /\ Commit([Cur EXCEPT
                !.ready = Append(@, Handle(FreeId(SeqIds(ready)), "reader", "")),
                !.served = @ \cup {Served("io", "asyncio", LoopState(Cur))}])
    /\ UNCHANGED <<modelvars, apivars, winvars, restvars>>

\* Component.run(): its statements in order; run_event_loop() is the one
\* that lasts
Component_run_hide_first == <<"show", "hide", "run_event_loop">>

Component_run == <<"show", "run_event_loop", "hide">>

LoopAt(body) == CHOOSE i \in 1..Len(body) : body[i] = "run_event_loop"

\* Component.run() up to the entry into the event loop
ComponentRun ==
    /\ phase = "idle" /\ run_pc = "none"
    /\ window_log' = SubSeq(Component_run, 1, LoopAt(Component_run) - 1)
                        \o <<"loop_start">>
    /\ run_pc' = "in_loop"
    /\ Commit(run_event_loop(Cur, NoCoro))
    /\ UNCHANGED <<modelvars, apivars, restvars>>

\* run_event_loop() has returned: the rest of Component.run()
ComponentRunReturns ==
    /\ run_pc = "in_loop" /\ phase = "returned"
    /\ window_log' = window_log \o <<"loop_end">>
                        \o SubSeq(Component_run, LoopAt(Component_run) + 1,
                                  Len(Component_run))
                        \o <<"return">>
    /\ run_pc' = "returned"
    /\ UNCHANGED <<loopvars, modelvars, apivars, restvars>>

Next ==
    \/ QuitWhileIdle
    \/ RunEventLoop
    \/ ComponentRun
    \/ ComponentRunReturns
    \/ TimerFires
    \/ FlushRunsHandle
    \/ WindowClosed
    \/ CoreLoopReturns
    \/ RunnerCloses
    \/ BaseRunsHandle
    \/ BaseTimerDue
    \/ RunEventLoopReturns
    \/ UserCallLater
    \/ Register
    \/ ReadNotify
    \/ Select

Init ==
    /\ InitLoop
    /\ InitModelIdle
    /\ InitApiIdle
    /\ InitWindow /\ InitRestIdle

Spec == Init /\ [][Next]_vars

\* ------------------------------------------------------------------------
\* Properties of the event loop
\* ------------------------------------------------------------------------
AfterCore == {"core_returned", "closing", "returned"}

\* the steps the program takes by itself, without the user or the outside
RunStep ==
    \/ TimerFires
    \/ FlushRunsHandle
    \/ CoreLoopReturns
    \/ RunnerCloses
    \/ BaseRunsHandle
    \/ BaseTimerDue
    \/ RunEventLoopReturns

\* quit_event is fresh at the start of run_event_loop: it is set during a
\* run exactly if quit_event_loop() was called during that run
QuitCalledInRun == phase # "idle" /\ quit_event

MainPendingAtReturn ==
    main_coro # NoCoro /\ tstate["main"] \notin {"done", "failed"}

\* C1: if quit_event_loop() is called while run_event_loop() runs, that
\* run_event_loop() call returns: the run never comes to rest, with no step
\* left to take, before run_event_loop() has returned.
C1_QuitMakesRunReturn ==
    (QuitCalledInRun /\ ~ENABLED RunStep) => phase = "returned"

\* C2 as stated: once main_coro has completed without an exception,
\* run_event_loop() returns only after quit_event_loop() has been called.
C2_ReturnsOnlyAfterQuit ==
    (phase = "returned" /\ main_coro # NoCoro /\ tstate["main"] = "done")
        => quit_event

\* C2 amended: once main_coro has completed without an exception the core
\* loop keeps running, and is not even asked to quit, until quit_event_loop()
\* has been called or the native loop has been quit directly; run_event_loop()
\* does not return before that.
C2_RunsUntilQuitOrNativeQuit ==
    (phase # "idle" /\ main_coro # NoCoro /\ tstate["main"] = "done"
        /\ ~quit_event /\ ~native_quit)
        => (phase = "running" /\ ~core_quit)

C2_Witness ==
    /\ phase = "returned" /\ main_coro = <<"timer_quit">>
    /\ tstate["main"] = "done" /\ quit_event /\ ~native_quit
    /\ outcome = "None"

\* C3: an exception raised by the main coroutine is re-raised to the caller
\* of run_event_loop(): it is neither swallowed nor replaced.
C3_MainExceptionReraised ==
    (phase = "returned" /\ main_coro # NoCoro /\ tstate["main"] = "failed")
        => outcome = "Boo"

C5_QuitCallsCore ==
    [][(quit_calls' # quit_calls) =>
            (quit_event' /\ core_calls' # core_calls)]_vars

\* C6: call_soon callbacks run in FIFO order while the core loop is the
\* scheduler: the handle _flush_soon_tasks runs next is always the oldest
\* pending one, whichever flush timer fired.
C6_CallSoonFIFO ==
    InCallback => Head(tasks_now).id = Head(sched_order)

C6_Witness ==
    /\ Len(tasks_now) >= 2
    /\ soon_tasks # <<>>
    /\ CopiesIn(Timer("flush", ""), timers) >= 2

RunOrder == <<"show", "loop_start", "loop_end", "hide", "return">>
C18_ShowLoopHide ==
    /\ \E n \in 0..Len(RunOrder) : window_log = SubSeq(RunOrder, 1, n)
    /\ run_pc = "in_loop" => window_log = <<"show", "loop_start">>
    /\ run_pc = "returned" => (window_log = RunOrder /\ phase = "returned")
    /\ (run_pc # "none" /\ phase # "returned") => run_pc = "in_loop"

C18_Witness ==
    /\ run_pc = "returned"
    /\ window_log = RunOrder
    /\ phase = "returned"
    /\ native_quit /\ main_coro = NoCoro

\* C15: invoking an async callback method returns None at once and leaves
\* its coroutine as a task scheduled on the event loop; the body has not
\* run when the invocation returns
C15_AsyncCallbackDeferred ==
    \A i \in 1..Len(invoked) :
        /\ invoked[i].ret = None
        /\ invoked[i].scheduled
        /\ ~invoked[i].body_ran

\* the body ran later, from a handle of the loop
C15_Witness ==
    /\ invoked # <<>>
    /\ ~invoked[1].body_ran
    /\ tstate["callback"] = "done"
    /\ phase = "running"

\* ------------------------------------------------------------------------
\* Python list and slice semantics used by ListModel
\* ------------------------------------------------------------------------
Max(a, b) == IF a >= b THEN a ELSE b

\* list[i]: a negative index counts from the end
PyNorm(n, i) == IF i < 0 THEN i + n ELSE i
PyInRange(n, i) == PyNorm(n, i) >= 0 /\ PyNorm(n, i) < n

\* the list without the rows whose 0-based index is in idx
RECURSIVE KeepRows(_, _, _)
KeepRows(l, idx, k) ==
    IF k > Len(l) THEN <<>>
    ELSE (IF (k - 1) \in idx THEN <<>> ELSE <<l[k]>>) \o KeepRows(l, idx, k + 1)

\* slice.indices(length): clamp one bound of the slice
SliceClamp(b, length, step, isStart) ==
    LET lower == IF step < 0 THEN 0 - 1 ELSE 0
        upper == IF step < 0 THEN length - 1 ELSE length
    IN  IF b = None
        THEN (IF isStart THEN (IF step < 0 THEN upper ELSE lower)
                         ELSE (IF step < 0 THEN lower ELSE upper))
        ELSE IF b[1] < 0
             THEN Max(b[1] + length, lower)
             ELSE (IF b[1] > upper THEN upper ELSE b[1])

\* slice(start, stop, step).indices(length) as <<start, stop, step>>
SliceIndices(key, length) ==
    LET step == IF key.step = None THEN 1 ELSE key.step[1]
    IN  [start |-> SliceClamp(key.start, length, step, TRUE),
         stop  |-> SliceClamp(key.stop, length, step, FALSE),
         step  |-> step]

\* len(range(start, stop, step)), with lo = start and hi = stop
RangeLen(lo, hi, step) ==
    IF step > 0
    THEN (IF hi > lo THEN ((hi - lo - 1) \div step) + 1 ELSE 0)
    ELSE (IF lo > hi THEN ((lo - hi - 1) \div (0 - step)) + 1 ELSE 0)

\* the 0-based indices range(start, stop, step) enumerates
RangeRows(lo, hi, step) ==
    { lo + k * step : k \in 0..(RangeLen(lo, hi, step) - 1) }

\* a key is an integer index or a slice
IntKey(i) == [kind |-> "int", i |-> i]
IsSlice(key) == key.kind = "slice"

\* the rows `del list[key]` removes (0-based indices of the list before)
DeletedRows(l, key) ==
    IF IsSlice(key)
    THEN LET ix == SliceIndices(key, Len(l))
         IN  RangeRows(ix.start, ix.stop, ix.step)
    ELSE {PyNorm(Len(l), key.i)}

\* ------------------------------------------------------------------------
\* ListModel methods: each returns the new list, the notifications sent to
\* the native base in order, and how the call ended
\* ------------------------------------------------------------------------
Note(kind, row, count, seen) ==
    [kind |-> kind, row |-> row, count |-> count, seen |-> seen]

Outcome(l, notes, status) == [list |-> l, notes |-> notes, status |-> status]

row_count(l) == Len(l)

row_data(l, row) == l[PyNorm(Len(l), row) + 1]

set_row_data_silent(l, row, data) ==
    IF ~PyInRange(Len(l), row) THEN Outcome(l, <<>>, "IndexError")
    ELSE Outcome([l EXCEPT ![PyNorm(Len(l), row) + 1] = data], <<>>, "ok")

set_row_data_next_row(l, row, data) ==
    IF ~PyInRange(Len(l), row) THEN Outcome(l, <<>>, "IndexError")
    ELSE LET r  == IF PyNorm(Len(l), row) + 2 > Len(l) THEN 1 ELSE PyNorm(Len(l), row) + 2
             nl == [l EXCEPT ![r] = data]
         IN  Outcome(nl, <<Note("changed", row, 1, nl)>>, "ok")

set_row_data(l, row, data) ==
    IF ~PyInRange(Len(l), row) THEN Outcome(l, <<>>, "IndexError")
    ELSE LET nl == [l EXCEPT ![PyNorm(Len(l), row) + 1] = data]
         IN  Outcome(nl, <<Note("changed", row, 1, nl)>>, "ok")

\* Model.__setitem__
setitem(l, index, value) == set_row_data(l, index, value)

\* ListModel.__delitem__
delitem(l, key) ==
    IF IsSlice(key)
    THEN IF key.step = Some(0) THEN Outcome(l, <<>>, "ValueError")
         ELSE LET ix    == SliceIndices(key, Len(l))
                  nl    == KeepRows(l, RangeRows(ix.start, ix.stop, ix.step), 1)
                  count == RangeLen(ix.start, ix.stop, ix.step)
              IN  Outcome(nl, <<Note("removed", ix.start, count, nl)>>, "ok")
    ELSE IF ~PyInRange(Len(l), key.i) THEN Outcome(l, <<>>, "IndexError")
         ELSE LET nl == KeepRows(l, {PyNorm(Len(l), key.i)}, 1)
              IN  Outcome(nl, <<Note("removed", key.i, 1, nl)>>, "ok")

append(l, value) ==
    LET index == Len(l)
        nl    == Append(l, value)
    IN  Outcome(nl, <<Note("added", index, 1, nl)>>, "ok")

\* ModelIterator.__next__ repeated until StopIteration, from index
RECURSIVE ModelIterator(_, _)
ModelIterator(l, index) ==
    IF index >= row_count(l) THEN <<>>
    ELSE <<row_data(l, index)>> \o ModelIterator(l, index + 1)

\* ------------------------------------------------------------------------
\* ListModel operations
\* ------------------------------------------------------------------------
Lists == UNION { [1..n -> Values] : n \in 0..MaxLen }

OptKeys == {None} \cup { Some(k) : k \in Keys }
OptSteps == {None} \cup { Some(k) : k \in Steps }
Slices == [kind : {"slice"}, start : OptKeys, stop : OptKeys, step : OptSteps]

NoOut == [len |-> 0, rows |-> <<>>]

Op(name, key, value, before, status, out) ==
    [op |-> name, key |-> key, value |-> value, before |-> before,
     status |-> status, out |-> out]

\* ListModel(iterable): all the values the iterable produces are stored
InitModel ==
    /\ InitLoop
    /\ InitApiIdle
    /\ InitWindow /\ InitRestIdle
    /\ list \in Lists
    /\ notified = <<>>
    /\ last_op = Op("init", IntKey(0), 0, <<>>, "ok", NoOut)

ModelAppend ==
    \E v \in Values :
        LET r == append(list, v) IN
        /\ Len(list) < MaxLen
        /\ list' = r.list
        /\ notified' = r.notes
        /\ UNCHANGED <<loopvars, apivars, winvars, restvars>>
        /\ last_op' = Op("append", IntKey(Len(list)), v, list, r.status, NoOut)

ModelSetRowData ==
    \E row \in Keys, v \in Values :
        LET r == set_row_data(list, row, v) IN
        /\ list' = r.list
        /\ notified' = r.notes
        /\ UNCHANGED <<loopvars, apivars, winvars, restvars>>
        /\ last_op' = Op("set_row_data", IntKey(row), v, list, r.status, NoOut)

ModelSetItem ==
    \E i \in Keys, v \in Values :
        LET r == setitem(list, i, v) IN
        /\ list' = r.list
        /\ notified' = r.notes
        /\ UNCHANGED <<loopvars, apivars, winvars, restvars>>
        /\ last_op' = Op("setitem", IntKey(i), v, list, r.status, NoOut)

ModelDelIndex ==
    \E i \in Keys :
        LET r == delitem(list, IntKey(i)) IN
        /\ list' = r.list
        /\ notified' = r.notes
        /\ UNCHANGED <<loopvars, apivars, winvars, restvars>>
        /\ last_op' = Op("delitem", IntKey(i), 0, list, r.status, NoOut)

ModelDelSlice ==
    \E key \in Slices :
        LET r == delitem(list, key) IN
        /\ list' = r.list
        /\ notified' = r.notes
        /\ UNCHANGED <<loopvars, apivars, winvars, restvars>>
        /\ last_op' = Op("delitem", key, 0, list, r.status, NoOut)

\* len(model) and list(model)
ModelIterate ==
    /\ list' = list
    /\ notified' = <<>>
    /\ UNCHANGED <<loopvars, apivars, winvars, restvars>>
    /\ last_op' = Op("iter", IntKey(0), 0, list, "ok",
                     [len |-> row_count(list), rows |-> ModelIterator(list, 0)])

NextModel ==
    \/ ModelAppend
    \/ ModelSetRowData
    \/ ModelSetItem
    \/ ModelDelIndex
    \/ ModelDelSlice
    \/ ModelIterate

ModelSpec == InitModel /\ [][NextModel]_vars

\* ------------------------------------------------------------------------
\* Properties of ListModel
\* ------------------------------------------------------------------------
Mutations == {"append", "set_row_data", "setitem", "delitem"}

NoteKind(op) ==
    IF op = "append" THEN "added"
    ELSE IF op = "delitem" THEN "removed"
    ELSE "changed"

\* C8: every mutation of a ListModel that completes has updated the backing
\* list and then sent exactly one notification of the matching kind (row
\* added, row changed, row removed) to the native model base, which sees the
\* updated list; a mutation that raises changes nothing and notifies nothing.
C8_MutationNotifies ==
    last_op.op \in Mutations =>
        IF last_op.status = "ok"
        THEN /\ Len(notified) = 1
             /\ notified[1].kind = NoteKind(last_op.op)
             /\ notified[1].seen = list
        ELSE list = last_op.before /\ notified = <<>>

C8_Witness ==
    /\ last_op.op = "delitem" /\ last_op.status = "ok"
    /\ Len(list) < Len(last_op.before)
    /\ Len(notified) = 1 /\ notified[1].kind = "removed"

\* C9: after del model[key], for an integer index or any slice, the call
\* notify_row_removed(row, count) describes exactly the removed rows: rows
\* row .. row+count-1 of the list before the deletion are the deleted rows.
C9_RemovedRowsNotified ==
    (last_op.op = "delitem" /\ last_op.status = "ok") =>
        { notified[1].row + k : k \in 0..(notified[1].count - 1) }
            = DeletedRows(last_op.before, last_op.key)

\* C10: len(model) is the number of stored rows, iteration yields rows
\* 0..len-1 in order, and model[i] = v replaces the row that i designates
\* only, leaving the length and every other row unchanged.
C10_Sequence ==
    /\ last_op.op = "iter" =>
            /\ last_op.out.len = Len(list)
            /\ last_op.out.rows = list
    /\ (last_op.op = "setitem" /\ last_op.status = "ok") =>
            /\ Len(list) = Len(last_op.before)
            /\ \A j \in 1..Len(list) :
                   list[j] = IF j = PyNorm(Len(last_op.before), last_op.key.i) + 1
                             THEN last_op.value
                             ELSE last_op.before[j]

C10_Witness ==
    /\ last_op.op = "setitem" /\ last_op.status = "ok"
    /\ Len(list) = MaxLen
    /\ list # last_op.before

\* ------------------------------------------------------------------------
\* load_file and CompileError (api.py)
\* ------------------------------------------------------------------------
\* a PyDiagnostic of the compiler: its level and its message
Levels == {"Warning", "Error"}
Messages == {"No component found", "Unknown type"}
Diagnostic == [level : Levels, message : Messages]
Diagnostics == UNION { [1..n -> Diagnostic] : n \in 0..MaxDiags }
Paths == {"app.slint", "non-existent.slint"}

\* str(diag), computed by the native PyDiagnostic
DiagStr(diag) == <<"str", diag.level, diag.message>>

\* exceptions, with the layer whose code raised them
NoError == [type |-> "none", origin |-> "none", message |-> <<>>,
            diagnostics |-> <<>>, notes |-> <<>>]
PyError(type, message) ==
    [type |-> type, origin |-> "python", message |-> message,
     diagnostics |-> <<>>, notes |-> <<>>]
NativeError(type, message) ==
    [type |-> type, origin |-> "native", message |-> message,
     diagnostics |-> <<>>, notes |-> <<>>]

\* CompileError.__init__: keeps the diagnostics, adds one note for each
CompileError(message, diagnostics) ==
    [PyError("CompileError", message) EXCEPT
        !.diagnostics = diagnostics,
        !.notes = [i \in 1..Len(diagnostics) |-> DiagStr(diagnostics[i])]]

\* load_file from result.diagnostics on: the warnings it logs, the error it
\* raises or the namespace it returns
load_file_errors_only(path, quiet, diagnostics) ==
    LET warnings == SelectSeq(diagnostics, LAMBDA d : d.level = "Warning")
        errors == SelectSeq(diagnostics, LAMBDA d : d.level = "Error")
    IN  IF errors # <<>>
        THEN [raised |-> TRUE,
              error |-> CompileError(<<"Could not compile ", path>>, errors),
              module |-> None,
              logged |-> IF quiet THEN <<>> ELSE warnings]
        ELSE [raised |-> FALSE, error |-> NoError, module |-> Some(path),
              logged |-> IF quiet THEN <<>> ELSE warnings]

load_file(path, quiet, diagnostics) ==
    LET warnings == SelectSeq(diagnostics, LAMBDA d : d.level = "Warning")
        errors == SelectSeq(diagnostics, LAMBDA d : d.level = "Error")
    IN  IF errors # <<>>
        THEN [raised |-> TRUE,
              error |-> CompileError(<<"Could not compile ", path>>, diagnostics),
              module |-> None,
              logged |-> IF quiet THEN <<>> ELSE warnings]
        ELSE [raised |-> FALSE, error |-> NoError, module |-> Some(path),
              logged |-> IF quiet THEN <<>> ELSE warnings]

\* load_file(path, quiet) on a file the compiler answers with diagnostics;
\* a behaviour loads files and builds structs before it instantiates the
\* component it then uses
LoadFile ==
    /\ instance = NoInstance
    /\ \E path \in Paths, quiet \in BOOLEAN, diagnostics \in Diagnostics :
        api_op' = [op |-> "load_file", path |-> path, quiet |-> quiet,
                   diagnostics |-> diagnostics,
                   out |-> load_file(path, quiet, diagnostics)]
    /\ UNCHANGED <<loopvars, modelvars, winvars, restvars, loadervars, genvars,
                   prototype, instance>>

\* C11: load_file raises CompileError exactly when a diagnostic has level
\* Error; the error has the message 'Could not compile <path>', all the
\* diagnostics of the compilation and one note for each of them in their
\* order, and no namespace is returned; without an Error-level diagnostic
\* the namespace is returned
C11_LoadFileCompileError ==
    api_op.op = "load_file" =>
        LET d == api_op.diagnostics
            o == api_op.out
        IN  /\ o.raised <=> (\E i \in 1..Len(d) : d[i].level = "Error")
            /\ o.raised =>
                /\ o.error.type = "CompileError"
                /\ o.error.message = <<"Could not compile ", api_op.path>>
                /\ o.error.diagnostics = d
                /\ Len(o.error.notes) = Len(d)
                /\ \A i \in 1..Len(d) : o.error.notes[i] = DiagStr(d[i])
                /\ o.module = None
            /\ ~o.raised => (o.module = Some(api_op.path) /\ o.error = NoError)

C11_Witness ==
    /\ api_op.op = "load_file"
    /\ api_op.out.raised
    /\ Len(api_op.diagnostics) = 2
    /\ api_op.diagnostics[1].level = "Warning"
    /\ api_op.diagnostics[2].level = "Error"
    /\ Len(api_op.out.error.notes) = 2

\* ------------------------------------------------------------------------
\* _build_struct (api.py)
\* ------------------------------------------------------------------------
StructName == "MyData"
KwNames == Fields \cup {"extra"}
Kwargs == UNION { [D -> FieldVals] : D \in SUBSET KwNames }
Args == {<<>>, <<0>>}

\* new_struct applied to the prototype: the error it raises or the struct
\* it returns, and the fields of the prototype afterwards
new_struct_shared(proto, args, kwargs) ==
    LET unexpected == DOMAIN kwargs \ DOMAIN proto
        inst == [f \in DOMAIN proto |->
                    IF f \in DOMAIN kwargs THEN kwargs[f] ELSE proto[f]]
    IN  IF args # <<>>
        THEN [raised |-> TRUE, inst |-> None, prototype |-> proto,
              error |-> PyError("TypeError",
                            <<StructName, "accepts keyword arguments only", {}>>)]
        ELSE IF unexpected # {}
        THEN [raised |-> TRUE, inst |-> None, prototype |-> proto,
              error |-> PyError("TypeError",
                            <<StructName, "got unexpected keyword argument(s)",
                              unexpected>>)]
        ELSE [raised |-> FALSE, inst |-> Some(inst), prototype |-> inst,
              error |-> NoError]

new_struct(proto, args, kwargs) ==
    LET unexpected == DOMAIN kwargs \ DOMAIN proto
        \* copy.copy(struct_prototype), then setattr for each keyword
        inst == [f \in DOMAIN proto |->
                    IF f \in DOMAIN kwargs THEN kwargs[f] ELSE proto[f]]
    IN  IF args # <<>>
        THEN [raised |-> TRUE, inst |-> None, prototype |-> proto,
              error |-> PyError("TypeError",
                            <<StructName, "accepts keyword arguments only", {}>>)]
        ELSE IF unexpected # {}
        THEN [raised |-> TRUE, inst |-> None, prototype |-> proto,
              error |-> PyError("TypeError",
                            <<StructName, "got unexpected keyword argument(s)",
                              unexpected>>)]
        ELSE [raised |-> FALSE, inst |-> Some(inst), prototype |-> proto,
              error |-> NoError]

\* MyData(*args, **kwargs)
NewStruct ==
    /\ instance = NoInstance
    /\ \E args \in Args, kwargs \in Kwargs :
        LET r == new_struct(prototype, args, kwargs)
        IN  /\ prototype' = r.prototype
            /\ api_op' = [op |-> "new_struct", args |-> args, kwargs |-> kwargs,
                          before |-> prototype,
                          out |-> [raised |-> r.raised, error |-> r.error,
                                   inst |-> r.inst]]
    /\ UNCHANGED <<loopvars, modelvars, winvars, restvars, loadervars, genvars,
                   instance>>

\* C12: a struct class accepts keyword arguments only: a positional
\* argument raises TypeError 'accepts keyword arguments only', a keyword
\* that is no field raises TypeError 'unexpected keyword argument(s)', in
\* both cases no struct is produced; otherwise the result is a copy of the
\* prototype with exactly the given fields overwritten; the prototype is
\* never modified
C12_StructKeywordsOnly ==
    api_op.op = "new_struct" =>
        LET o == api_op.out
            kw == api_op.kwargs
            unknown == DOMAIN kw \ Fields
        IN  /\ prototype = api_op.before
            /\ api_op.args # <<>> =>
                /\ o.raised /\ o.error.type = "TypeError"
                /\ o.error.message[2] = "accepts keyword arguments only"
            /\ (api_op.args = <<>> /\ unknown # {}) =>
                /\ o.raised /\ o.error.type = "TypeError"
                /\ o.error.message[2] = "got unexpected keyword argument(s)"
                /\ o.error.message[3] = unknown
            /\ o.raised => o.inst = None
            /\ (api_op.args = <<>> /\ unknown = {}) =>
                /\ ~o.raised
                /\ o.inst = Some([f \in Fields |->
                            IF f \in DOMAIN kw THEN kw[f] ELSE api_op.before[f]])

C12_Witness ==
    /\ api_op.op = "new_struct"
    /\ ~api_op.out.raised
    /\ DOMAIN api_op.kwargs = {"name"}
    /\ api_op.out.inst # Some(api_op.before)
    /\ prototype = api_op.before

\* ------------------------------------------------------------------------
\* Component classes: _build_class, callback, _callback_decorator (api.py)
\* ------------------------------------------------------------------------
\* the component definition of the tests: App with the property hello, the
\* callbacks say-hello (returns a string) and call-void, and the global
\* MyGlobal with the callback global-callback (returns a string)
Component == None
MyGlobal == Some("MyGlobal")
Target(global_name, name) == [global_name |-> global_name, name |-> name]
Targets == {Target(Component, "say_hello"), Target(Component, "call_void"),
            Target(MyGlobal, "global_callback")}
VoidTargets == {Target(Component, "call_void")}
Properties == {"hello"}
BadValue == 0 - 1       \* a value of a type the property does not accept

\* a method of the subclass and the way slint.callback was applied to it:
\*   bare    @slint.callback
\*   call    @slint.callback(name=..., global_name=...)
\*   direct  method = slint.callback(method, name=..., global_name=...)
PyNames == {"say_hello", "call_void", "global_callback", "renamed"}
Forms == {"bare", "call", "direct"}
NameArgs == {None} \cup { Some(t.name) : t \in Targets }
GlobalArgs == {Component, MyGlobal}
Methods ==
    { m \in [pyname : PyNames, form : Forms, name : NameArgs,
             global_name : GlobalArgs, is_async : BOOLEAN] :
        m.form = "bare" => (m.name = None /\ m.global_name = None) }
NoMethod == <<>>
SubClasses == {NoMethod} \cup { <<m>> : m \in Methods }

\* keyword arguments of the constructor, in the order they were written
KwargItems == ({"hello"} \X (FieldVals \cup {BadValue}))
                \cup ({"say_hello"} \X {"early"})
CtorKwargs ==
    {<<>>} \cup { <<i>> : i \in KwargItems }
           \cup { <<i, j>> : <<i, j>> \in { p \in KwargItems \X KwargItems :
                                             p[1][1] # p[2][1] } }

\* callback(): the info dictionary _callback_decorator attaches to the
\* method; a callable passed as first argument is decorated with {}
callback_info(m) ==
    IF m.form = "call"
    THEN [name |-> IF m.name # None THEN m.name[1] ELSE m.pyname,
          global_name |-> m.global_name]
    ELSE [name |-> m.pyname, global_name |-> None]

\* handlers of a native callback
NoHandler == <<"none">>
MethodHandler(m) == <<"method", m.pyname>>
CallableHandler(c) == <<"callable", c>>

\* compdef.create(): the native instance, with what __init__ was given
NewInstance(methods, kwargs) ==
    [constructed |-> FALSE, methods |-> methods, inherited |-> <<>>,
     kwargs |-> kwargs,
     callbacks |-> [t \in Targets |-> NoHandler],
     props |-> [p \in Properties |-> 0],
     dict |-> {},
     native_raised |-> NoError]

RuntimeErrorNotVoid(info) ==
    PyError("RuntimeError",
            <<"Callback", info.name, info.global_name,
              "cannot be used with a callback decorator for an async function, as it doesn't return void">>)
UnknownCallback(info) ==
    NativeError("unknown callback", <<info.name, info.global_name>>)
TypeMismatch(prop) == NativeError("type mismatch", <<prop>>)

Raise(I, error) == [inst |-> I, raised |-> TRUE, error |-> error]
\* a native call raised: nothing catches the exception
NativeRaise(I, error) ==
    [inst |-> [I EXCEPT !.native_raised = error], raised |-> TRUE,
     error |-> error]
Return(I) == [inst |-> I, raised |-> FALSE, error |-> NoError]

\* the first loop of cls_init for one decorated method: the test of async
\* methods, then set_callback or set_global_callback
connect_unchecked(I, m) ==
    LET info == callback_info(m)
        t == Target(info.global_name, info.name)
    IN  IF t \notin Targets THEN NativeRaise(I, UnknownCallback(info))
        ELSE Return([I EXCEPT !.callbacks[t] = MethodHandler(m)])

connect(I, m) ==
    LET info == callback_info(m)
        t == Target(info.global_name, info.name)
    IN  IF m.is_async /\ t \notin VoidTargets
        THEN Raise(I, RuntimeErrorNotVoid(info))
        ELSE IF t \notin Targets THEN NativeRaise(I, UnknownCallback(info))
        ELSE Return([I EXCEPT !.callbacks[t] = MethodHandler(m)])

\* setattr(self, prop, val): an attribute of the subclass that is no data
\* descriptor hides the property of the component class, and the value
\* lands in the instance dictionary
setattr_wrapped(I, prop, val) ==
    LET in_subclass == \E i \in 1..Len(I.methods) : I.methods[i].pyname = prop
    IN  IF in_subclass THEN Return([I EXCEPT !.dict = @ \cup {<<prop, val>>}])
        ELSE IF prop \in Properties
        THEN IF val = BadValue THEN Raise([I EXCEPT !.native_raised = TypeMismatch(prop)],
                        PyError("TypeError", <<prop>>))
             ELSE Return([I EXCEPT !.props[prop] = val])
        ELSE IF Target(Component, prop) \in Targets
        THEN Return([I EXCEPT !.callbacks[Target(Component, prop)] =
                                    CallableHandler(val)])
        ELSE Return([I EXCEPT !.dict = @ \cup {<<prop, val>>}])

setattr(I, prop, val) ==
    LET in_subclass == \E i \in 1..Len(I.methods) : I.methods[i].pyname = prop
    IN  IF in_subclass THEN Return([I EXCEPT !.dict = @ \cup {<<prop, val>>}])
        ELSE IF prop \in Properties
        THEN IF val = BadValue THEN NativeRaise(I, TypeMismatch(prop))
             ELSE Return([I EXCEPT !.props[prop] = val])
        ELSE IF Target(Component, prop) \in Targets
        THEN Return([I EXCEPT !.callbacks[Target(Component, prop)] =
                                    CallableHandler(val)])
        ELSE Return([I EXCEPT !.dict = @ \cup {<<prop, val>>}])

RECURSIVE ConnectAll(_, _)
ConnectAll(I, methods) ==
    IF methods = <<>> THEN Return(I)
    ELSE LET r == connect(I, Head(methods))
         IN  IF r.raised THEN r ELSE ConnectAll(r.inst, Tail(methods))

RECURSIVE ApplyKwargs(_, _)
ApplyKwargs(I, kwargs) ==
    IF kwargs = <<>> THEN Return(I)
    ELSE LET r == setattr(I, Head(kwargs)[1], Head(kwargs)[2])
         IN  IF r.raised THEN r ELSE ApplyKwargs(r.inst, Tail(kwargs))

\* cls_init: connect the decorated methods, then apply the keyword arguments
cls_init(methods, kwargs) ==
    LET r1 == ConnectAll(NewInstance(methods, kwargs), methods)
    IN  IF r1.raised THEN r1
        ELSE LET r2 == ApplyKwargs(r1.inst, kwargs)
             IN  IF r2.raised THEN r2
                 ELSE Return([r2.inst EXCEPT !.constructed = TRUE])

\* the native instance invokes the handler of a callback
invoke(I, t) ==
    LET h == I.callbacks[t]
    IN  IF h[1] = "method"
        THEN LET m == CHOOSE m \in { I.methods[i] : i \in 1..Len(I.methods) } :
                          m.pyname = h[2]
             IN  IF m.is_async
                 THEN [by |-> h, self |-> "instance", ret |-> None,
                       task |-> Some(m.pyname)]
                 ELSE [by |-> h, self |-> "instance", ret |-> Some(m.pyname),
                       task |-> None]
        ELSE IF h[1] = "callable"
        THEN [by |-> h, self |-> "", ret |-> Some(h[2]), task |-> None]
        ELSE [by |-> h, self |-> "", ret |-> Some("default"), task |-> None]

\* SubClass(**kwargs) for a subclass of a component class of a module that
\* load_file returned
Construct ==
    /\ instance = NoInstance
    /\ api_op.op = "load_file" /\ ~api_op.out.raised
    /\ \E methods \in SubClasses, kwargs \in CtorKwargs :
        LET r == cls_init(methods, kwargs)
        IN  /\ instance' = r.inst
            /\ api_op' = [op |-> "construct",
                          out |-> [raised |-> r.raised, error |-> r.error]]
    /\ UNCHANGED <<loopvars, modelvars, winvars, restvars, loadervars, genvars,
                   prototype>>

\* B() for class B(A) with class A(module.App): the decorated methods are
\* in A.__dict__ and B.__dict__ has none; cls_init, which B inherits, sees
\* self.__class__.__dict__, that of B
ConstructDerived ==
    /\ instance = NoInstance
    /\ api_op.op = "load_file" /\ ~api_op.out.raised
    /\ \E inherited \in SubClasses \ {NoMethod} :
        LET r == cls_init(NoMethod, <<>>)
        IN  /\ instance' = [r.inst EXCEPT !.inherited = inherited]
            /\ api_op' = [op |-> "construct",
                          out |-> [raised |-> r.raised, error |-> r.error]]
    /\ UNCHANGED <<loopvars, modelvars, winvars, restvars, loadervars, genvars,
                   prototype>>

\* the Slint side invokes a callback of the instance
InvokeCallback ==
    /\ instance.constructed
    /\ \E t \in Targets :
        api_op' = [op |-> "invoke", target |-> t, out |-> invoke(instance, t)]
    /\ UNCHANGED <<loopvars, modelvars, winvars, restvars, loadervars, genvars,
                   prototype, instance>>

\* the callback the decorator arguments designate: the name argument if
\* given and otherwise the method's own name, on the global if given
DesignatedTarget(m) ==
    Target(m.global_name, IF m.name # None THEN m.name[1] ELSE m.pyname)
NamedByKwargs(I, t) ==
    \E i \in 1..Len(I.kwargs) : Target(Component, I.kwargs[i][1]) = t

\* C13: after construction a decorated method is the handler of the
\* callback its decorator arguments designate (name argument or method
\* name, global or component), and invoking that callback calls the method
\* with the instance as self and returns its result
C13_DecoratedMethodConnected ==
    (instance.constructed /\ instance.methods # <<>>) =>
        LET m == instance.methods[1]
            t == DesignatedTarget(m)
        IN  (t \in Targets /\ ~NamedByKwargs(instance, t)) =>
                /\ instance.callbacks[t] = MethodHandler(m)
                /\ invoke(instance, t).self = "instance"
                /\ ~m.is_async => invoke(instance, t).ret = Some(m.pyname)

\* C14: constructing a subclass with an async decorated method bound to a
\* callback that does not return void raises RuntimeError naming that
\* callback (and its global), and the method is not connected
C14_AsyncNonVoidRejected ==
    (api_op.op = "construct" /\ instance.methods # <<>>) =>
        LET m == instance.methods[1]
            info == callback_info(m)
            t == Target(info.global_name, info.name)
        IN  (m.is_async /\ t \in Targets \ VoidTargets) =>
                /\ api_op.out.raised
                /\ api_op.out.error.type = "RuntimeError"
                /\ api_op.out.error.message[2] = info.name
                /\ api_op.out.error.message[3] = info.global_name
                /\ instance.callbacks[t] # MethodHandler(m)
                /\ ~instance.constructed

C14_Witness ==
    /\ api_op.op = "construct" /\ api_op.out.raised
    /\ api_op.out.error.type = "RuntimeError"
    /\ instance.methods # <<>>
    /\ instance.methods[1].is_async
    /\ instance.methods[1].form = "call"
    /\ instance.methods[1].global_name = MyGlobal
    /\ api_op.out.error.message[3] = MyGlobal
    /\ \A t \in Targets : instance.callbacks[t] = NoHandler

\* C16: after a successful App(**kwargs) each named property holds the
\* given value and each named callback has the given callable as handler,
\* also when a decorated method targets that callback
C16_KwargsApplied ==
    (api_op.op = "construct" /\ ~api_op.out.raised) =>
        \A i \in 1..Len(instance.kwargs) :
            LET prop == instance.kwargs[i][1]
                val == instance.kwargs[i][2]
            IN  /\ prop \in Properties => instance.props[prop] = val
                /\ Target(Component, prop) \in Targets =>
                        instance.callbacks[Target(Component, prop)] =
                            CallableHandler(val)

\* the calls that can raise, and the exception class each raises itself
ApiCalls == {"load_file", "new_struct", "construct"}
OwnError(op) ==
    CASE op = "load_file" -> "CompileError"
      [] op = "new_struct" -> "TypeError"
      [] op = "construct" -> "RuntimeError"
NativeErrors == {"type mismatch", "unknown callback"}

\* C19 as stated: every error the Python layer surfaces was raised by the
\* native layer, the Python layer raises no exception of its own
C19_AllErrorsNative ==
    (api_op.op \in ApiCalls /\ api_op.out.raised) =>
        api_op.out.error.origin = "native"

\* C19: a type mismatch on a property set and an unknown callback name are
\* raised by the native layer and passed through unchanged, without
\* recovery; the other errors are raised by the Python layer itself:
\* CompileError by load_file, TypeError by a struct class, RuntimeError by
\* the constructor of a component class
C19_ErrorOrigins ==
    /\ (api_op.op \in ApiCalls /\ api_op.out.raised) =>
        LET e == api_op.out.error
        IN  \/ /\ e.origin = "python"
               /\ e.type = OwnError(api_op.op)
               /\ api_op.op = "construct" => instance.native_raised = NoError
            \/ /\ e.origin = "native"
               /\ e.type \in NativeErrors
               /\ api_op.op = "construct"
               /\ e = instance.native_raised
    /\ (api_op.op = "construct" /\ instance.native_raised # NoError) =>
        /\ api_op.out.raised
        /\ api_op.out.error = instance.native_raised
        /\ ~instance.constructed

C19_Witness ==
    /\ api_op.op = "construct" /\ api_op.out.raised
    /\ api_op.out.error.origin = "native"
    /\ api_op.out.error.type = "type mismatch"
    /\ instance.kwargs # <<>>
    /\ instance.kwargs[1] = <<"hello", BadValue>>
    /\ instance.props["hello"] = 0

\* ------------------------------------------------------------------------
\* The API specification: calls of load_file, of struct classes and of
\* component classes
\* ------------------------------------------------------------------------
InitApi ==
    /\ InitLoop
    /\ InitModelIdle
    /\ api_op = NoCall
    /\ prototype \in [Fields -> FieldVals]
    /\ instance = NoInstance
    /\ InitLoaderIdle
    /\ InitGenIdle
    /\ InitWindow /\ InitRestIdle

NextApi ==
    \/ LoadFile
    \/ NewStruct
    \/ Construct
    \/ ConstructDerived
    \/ InvokeCallback

ApiSpec == InitApi /\ [][NextApi]_vars

\* ------------------------------------------------------------------------
\* SlintAutoLoader (api.py)
\* ------------------------------------------------------------------------
\* attribute names looked up on the loader, and name.replace("_", "-")
Names == {"printer_demo", "ui"}
Dash(name) == IF name = "printer_demo" THEN "printer-demo" ELSE name
Stems == Names \cup { Dash(n) : n \in Names }
Dirs == {"d1", "d2"}

\* a directory entry: a sub-directory or a regular file, named stem + suffix
Suffixes == {"", ".slint"}
Kinds == {"dir", "file"}
Entry(dir, kind, stem, suffix) ==
    [dir |-> dir, kind |-> kind, stem |-> stem, suffix |-> suffix]
Entries == [dir : Dirs, kind : Kinds, stem : Stems, suffix : Suffixes]

\* os.path.isdir and os.path.isfile on Path(path) / stem, with a suffix
isdir(files, dir, stem, suffix) == Entry(dir, "dir", stem, suffix) \in files
isfile(files, dir, stem, suffix) == Entry(dir, "file", stem, suffix) \in files

\* values the loader hands out
SubLoader(dir, name) == <<"loader", dir, name>>
Namespace(dir, stem) == <<"namespace", dir, stem>>

Cached(dict, name) == \E e \in dict : e[1] = name
CachedValue(dict, name) == (CHOOSE e \in dict : e[1] = name)[2]

\* SlintAutoLoader.__getattr__ over the search path: the value it returns
\* and the instance dictionary afterwards
RECURSIVE getattr_caching_none(_, _, _, _)
getattr_caching_none(path, files, dict, name) ==
    IF path = <<>> THEN [value |-> None, dict |-> dict \cup {<<name, None>>}]
    ELSE LET dir == Head(path)
         IN  IF isdir(files, dir, name, "")
             THEN [value |-> SubLoader(dir, name),
                   dict |-> dict \cup {<<name, SubLoader(dir, name)>>}]
             ELSE IF isfile(files, dir, name, ".slint")
             THEN [value |-> Namespace(dir, name),
                   dict |-> dict \cup {<<name, Namespace(dir, name)>>}]
             ELSE IF isfile(files, dir, Dash(name), ".slint")
             THEN [value |-> Namespace(dir, Dash(name)),
                   dict |-> dict \cup {<<name, Namespace(dir, Dash(name))>>}]
             ELSE getattr_caching_none(Tail(path), files, dict, name)

RECURSIVE getattr(_, _, _, _)
getattr(path, files, dict, name) ==
    IF path = <<>> THEN [value |-> None, dict |-> dict]
    ELSE LET dir == Head(path)
         IN  IF isdir(files, dir, name, "")
             THEN [value |-> SubLoader(dir, name),
                   dict |-> dict \cup {<<name, SubLoader(dir, name)>>}]
             ELSE IF isfile(files, dir, name, ".slint")
             THEN [value |-> Namespace(dir, name),
                   dict |-> dict \cup {<<name, Namespace(dir, name)>>}]
             ELSE IF isfile(files, dir, Dash(name), ".slint")
             THEN [value |-> Namespace(dir, Dash(name)),
                   dict |-> dict \cup {<<name, Namespace(dir, Dash(name))>>}]
             ELSE getattr(Tail(path), files, dict, name)

\* loader.<name>: Python looks into the instance dictionary first and
\* calls __getattr__ only when the name is not there
Lookup(path, files, dict, name) ==
    IF Cached(dict, name)
    THEN [value |-> CachedValue(dict, name), dict |-> dict]
    ELSE getattr(path, files, dict, name)

\* does an entry of the search path hold a directory <name>, a file
\* <name>.slint or a file <name with '_' replaced by '-'>.slint?
OnSearchPath(path, files, name) ==
    \E i \in 1..Len(path) :
        \/ Entry(path[i], "dir", name, "") \in files
        \/ Entry(path[i], "file", name, ".slint") \in files
        \/ Entry(path[i], "file", Dash(name), ".slint") \in files

InitLoader ==
    /\ InitLoop /\ InitModelIdle /\ InitWindow /\ InitRestIdle /\ InitGenIdle
    /\ api_op = NoCall /\ prototype = [f \in Fields |-> 0]
    /\ instance = NoInstance
    /\ sys_path \in {<<>>, <<"d1">>}
    /\ fs = {} /\ loader_dict = {} /\ loader_op = NoCall /\ missed = {}

othervars ==
    <<loopvars, modelvars, winvars, restvars, genvars, api_op, prototype, instance>>

\* sys.path.append(dir)
PathAppend ==
    /\ \E dir \in Dirs :
        /\ \A i \in 1..Len(sys_path) : sys_path[i] # dir
        /\ sys_path' = Append(sys_path, dir)
    /\ UNCHANGED <<othervars, fs, loader_dict, loader_op, missed>>

\* a directory or a file appears in the file system
CreateEntry ==
    /\ Cardinality(fs) < MaxEntries
    /\ \E e \in Entries :
        /\ \A f \in fs : ~(f.dir = e.dir /\ f.stem = e.stem /\ f.suffix = e.suffix)
        /\ fs' = fs \cup {e}
    /\ UNCHANGED <<othervars, sys_path, loader_dict, loader_op, missed>>

\* loader.<name>; the .slint files compile
LoaderGetattr ==
    /\ \E name \in Names :
        LET r == Lookup(sys_path, fs, loader_dict, name)
        IN  /\ loader_dict' = r.dict
            /\ missed' = IF r.value = None THEN missed \cup {name} ELSE missed
            /\ loader_op' = [op |-> "getattr", name |-> name,
                             before |-> loader_dict,
                             was_missed |-> name \in missed,
                             on_path |-> OnSearchPath(sys_path, fs, name),
                             out |-> r.value]
    /\ UNCHANGED <<othervars, sys_path, fs>>

NextLoader ==
    \/ PathAppend
    \/ CreateEntry
    \/ LoaderGetattr

LoaderSpec == InitLoader /\ [][NextLoader]_vars

\* C17: a lookup on the loader returns None and caches nothing when no
\* entry of the search path holds a directory <name>, a file <name>.slint
\* or a file <name with '_' replaced by '-'>.slint; the same lookup
\* succeeds once such an entry is on the search path
C17_LoaderMissReturnsNone ==
    loader_op.op = "getattr" =>
        /\ ~loader_op.on_path =>
            /\ loader_op.out = None
            /\ loader_dict = loader_op.before
        /\ loader_op.on_path =>
            /\ loader_op.out # None
            /\ Cached(loader_dict, loader_op.name)

C17_Witness ==
    /\ loader_op.op = "getattr"
    /\ loader_op.was_missed /\ loader_op.on_path
    /\ loader_op.name = "printer_demo"
    /\ loader_op.out = Namespace("d2", "printer-demo")

\* ------------------------------------------------------------------------
\* generate_project and _compile_slint (codegen/generator.py)
\* ------------------------------------------------------------------------
\* the discovered .slint files, each given by the diagnostics of its
\* compilation; file i of the run is the i-th of them
SlintFiles == UNION { [1..n -> Diagnostics] : n \in 0..MaxFiles }

\* _compile_slint: is this error one that makes the file fail?
is_fatal_any(err) == TRUE

is_fatal(err) == err.message # "No component found"

\* _compile_slint: the lines it prints and whether it returns the result
compile_slint(diagnostics, quiet) ==
    LET errors == SelectSeq(diagnostics, LAMBDA d : d.level = "Error")
        other == SelectSeq(diagnostics, LAMBDA d : d.level # "Error")
        fatal_errors == SelectSeq(errors, LAMBDA e : is_fatal(e))
        non_fatal_errors == SelectSeq(errors, LAMBDA e : ~is_fatal(e))
        warnings == other \o non_fatal_errors
    IN  [compiled |-> fatal_errors = <<>>,
         warnings |-> IF warnings # <<>> /\ ~quiet THEN warnings ELSE <<>>,
         errors |-> fatal_errors]

GenOut(written, failed_files, generated_modules, printed) ==
    [raised |-> FALSE, written |-> written, failed_files |-> failed_files,
     generated_modules |-> generated_modules, printed |-> printed]

\* the loop of generate_project from file i on
RECURSIVE GenerateFrom(_, _, _, _)
GenerateFrom(files, quiet, i, out) ==
    IF i > Len(files) THEN out
    ELSE LET c == compile_slint(files[i], quiet)
             printed == Append(out.printed,
                               [warnings |-> c.warnings, errors |-> c.errors])
         IN  IF ~c.compiled
             THEN GenerateFrom(files, quiet, i + 1,
                    [out EXCEPT !.failed_files = Append(@, i),
                                !.printed = printed])
             ELSE GenerateFrom(files, quiet, i + 1,
                    [out EXCEPT !.written = @ \cup {<<i, ".py">>, <<i, ".pyi">>},
                                !.generated_modules = @ + 1,
                                !.printed = printed])

generate_project(files, quiet) ==
    IF files = <<>>
    THEN [GenOut({}, <<>>, 0, <<>>) EXCEPT !.raised = TRUE]
    ELSE GenerateFrom(files, quiet, 1, GenOut({}, <<>>, 0, <<>>))

InitGen ==
    /\ InitLoop /\ InitModelIdle /\ InitWindow /\ InitRestIdle /\ InitLoaderIdle
    /\ api_op = NoCall /\ prototype = [f \in Fields |-> 0]
    /\ instance = NoInstance
    /\ gen_op = NoCall

\* one run of generate_project(inputs=..., config=...)
GenerateProject ==
    /\ gen_op = NoCall
    /\ \E files \in SlintFiles, quiet \in BOOLEAN :
        gen_op' = [op |-> "generate_project", files |-> files, quiet |-> quiet,
                   out |-> generate_project(files, quiet)]
    /\ UNCHANGED <<loopvars, modelvars, winvars, restvars, loadervars, api_op,
                   prototype, instance>>

NextGen ==
    \/ GenerateProject

GenSpec == InitGen /\ [][NextGen]_vars

\* the Error-level diagnostics of a file with a message other than
\* 'No component found'
OtherErrors(diagnostics) ==
    SelectSeq(diagnostics,
              LAMBDA d : d.level = "Error" /\ d.message # "No component found")
InSeq(x, seq) == \E i \in 1..Len(seq) : seq[i] = x

\* C20: a file whose only Error-level diagnostics are 'No component found'
\* is compiled with warnings (the diagnostic is printed as a warning unless
\* quiet, no error is printed) and its .py and .pyi are generated; a file
\* with any other Error-level diagnostic gets no .py/.pyi and is recorded
\* as failed
C20_NoComponentFoundNotFatal ==
    gen_op.op = "generate_project" =>
        \A i \in 1..Len(gen_op.files) :
            LET d == gen_op.files[i]
                o == gen_op.out
            IN  IF OtherErrors(d) = <<>>
                THEN /\ {<<i, ".py">>, <<i, ".pyi">>} \subseteq o.written
                     /\ ~InSeq(i, o.failed_files)
                     /\ o.printed[i].errors = <<>>
                     /\ \A j \in 1..Len(d) :
                            (d[j].level = "Error" /\ ~gen_op.quiet) =>
                                InSeq(d[j], o.printed[i].warnings)
                ELSE /\ {<<i, ".py">>, <<i, ".pyi">>} \cap o.written = {}
                     /\ InSeq(i, o.failed_files)
                     /\ o.printed[i].errors = OtherErrors(d)

C20_Witness ==
    /\ gen_op.op = "generate_project"
    /\ Len(gen_op.files) = 2
    /\ gen_op.files[1] = <<[level |-> "Error", message |-> "No component found"]>>
    /\ gen_op.files[2] = <<[level |-> "Error", message |-> "Unknown type"]>>
    /\ gen_op.out.written = {<<1, ".py">>, <<1, ".pyi">>}
    /\ gen_op.out.failed_files = <<2>>

\* ------------------------------------------------------------------------
\* codegen/utils.py: normalize_identifier
\* ------------------------------------------------------------------------

\* identifiers are non-empty strings of at most MaxIdLen characters over a
\* letter, two digits, the dash and the underscore
Letters == {"a"}
Digits == {"1", "2"}
Chars == Letters \cup Digits \cup {"-", "_"}
Identifiers == UNION { [1..n -> Chars] : n \in 1..MaxIdLen }

\* str.replace(old, new) for single characters
replace(s, old, new) == [i \in 1..Len(s) |-> IF s[i] = old THEN new ELSE s[i]]

\* str.isdigit() of one character
isdigit(c) == c \in Digits

normalize_identifier_no_prefix(identifier) == replace(identifier, "-", "_")

normalize_identifier(identifier) ==
    LET replaced == replace(identifier, "-", "_")
    IN  IF isdigit(replaced[1]) THEN <<"_">> \o replaced ELSE replaced

InitUtil ==
    /\ InitLoop /\ InitModelIdle /\ InitApiIdle /\ InitWindow
    /\ InitSelectorIdle /\ InitObjIdle
    /\ util_op = NoCall

\* normalize_identifier(identifier), and the same again on its result
NormalizeIdentifier ==
    /\ \E identifier \in Identifiers :
        LET out == normalize_identifier(identifier)
        IN  util_op' = [op |-> "normalize_identifier",
                        identifier |-> identifier, out |-> out,
                        again |-> normalize_identifier(out)]
    /\ UNCHANGED <<loopvars, modelvars, apivars, winvars, selvars, objvars>>

NextUtil == NormalizeIdentifier

UtilSpec == InitUtil /\ [][NextUtil]_vars

\* C21: normalize_identifier returns the identifier with every "-" replaced
\* by "_" and with "_" prepended exactly when its first character is a
\* digit; the result has no "-", does not start with a digit, and
\* normalizing it again returns it unchanged
C21_NormalizeIdentifier ==
    util_op.op = "normalize_identifier" =>
        LET id  == util_op.identifier
            out == util_op.out
            k   == Len(out) - Len(id)
        IN  /\ k = IF id[1] \in Digits THEN 1 ELSE 0
            /\ k = 1 => out[1] = "_"
            /\ \A i \in 1..Len(id) :
                   out[i + k] = IF id[i] = "-" THEN "_" ELSE id[i]
            /\ \A i \in 1..Len(out) : out[i] # "-"
            /\ out[1] \notin Digits
            /\ util_op.again = out

C21_Witness ==
    /\ util_op.op = "normalize_identifier"
    /\ util_op.identifier[1] \in Digits
    /\ \E i \in 1..Len(util_op.identifier) : util_op.identifier[i] = "-"
    /\ Len(util_op.out) = Len(util_op.identifier) + 1

\* ------------------------------------------------------------------------
\* loop.py: _SlintSelector
\* ------------------------------------------------------------------------

\* selectors.EVENT_READ, selectors.EVENT_WRITE and their union
EVENT_READ == {"read"}
EVENT_WRITE == {"write"}
EventMasks == {EVENT_READ, EVENT_WRITE, EVENT_READ \cup EVENT_WRITE}
\* the data of a key: asyncio passes the (reader, writer) handles
KeyData == {"handles1", "handles2"}
\* the file descriptor of _wakeup_reader
WakeupReader == 0

\* dict[k] = v and dict.pop(k, None)
Put(dict, k, v) ==
    [x \in DOMAIN dict \cup {k} |-> IF x = k THEN v ELSE dict[x]]
Drop(dict, k) == [x \in DOMAIN dict \ {k} |-> dict[x]]

\* selectors.SelectorKey: a file object stands for its descriptor
SelectorKey(fd, events, data) == [fd |-> fd, events |-> events, data |-> data]

\* core.AsyncAdapter(fd) with the waits register starts on it
AsyncAdapter(fd, events) ==
    [fd |-> fd, wait_for_readable |-> "read" \in events,
     wait_for_writable |-> "write" \in events]

\* _SlintSelector.__init__: the wake-up reader is registered with the base
\* selector for reading
NewSelector ==
    [fd_to_selector_key |-> <<>>, adapters |-> <<>>,
     base_selector |-> Put(<<>>, WakeupReader,
                           SelectorKey(WakeupReader, EVENT_READ, None)),
     wakeup_pending |-> FALSE]

\* _base_selector.register, with modify on KeyError; _base_selector.modify,
\* with register on KeyError
base_register_or_modify(S, fd, events, data) ==
    [S EXCEPT !.base_selector = Put(@, fd, SelectorKey(fd, events, data))]

\* a call's outcome: the selector afterwards, the key returned or KeyError
Returned(S, key) == [sel |-> S, raised |-> FALSE, key |-> key]
KeyError(S) == [sel |-> S, raised |-> TRUE, key |-> None]

\* _SlintSelector.register
register(S, fd, events, data) ==
    LET key == SelectorKey(fd, events, data)
        S1  == [S EXCEPT !.fd_to_selector_key = Put(@, fd, key),
                         !.adapters = Put(@, fd, AsyncAdapter(fd, events))]
    IN  Returned(base_register_or_modify(S1, fd, events, data), key)

\* _SlintSelector.unregister
unregister_keeping_adapter(S, fd) ==
    IF fd \notin DOMAIN S.fd_to_selector_key THEN KeyError(S)
    ELSE Returned([S EXCEPT !.fd_to_selector_key = Drop(@, fd),
                            !.base_selector = Drop(@, fd)],
                  S.fd_to_selector_key[fd])

unregister(S, fd) ==
    IF fd \notin DOMAIN S.fd_to_selector_key THEN KeyError(S)
    ELSE Returned([S EXCEPT !.fd_to_selector_key = Drop(@, fd),
                            !.adapters = Drop(@, fd),
                            !.base_selector = Drop(@, fd)],
                  S.fd_to_selector_key[fd])

\* _SlintSelector.modify: key._replace(data=data) builds a new key that is
\* bound to no name, so key is stored and returned as it was
modify(S, fd, events, data) ==
    IF fd \notin DOMAIN S.fd_to_selector_key THEN KeyError(S)
    ELSE LET key == S.fd_to_selector_key[fd]
         IN  IF key.events # events
             THEN register(unregister(S, fd).sel, fd, events, data)
             ELSE IF key.data # data
             THEN LET replaced == [key EXCEPT !.data = data]
                      S1 == [S EXCEPT !.fd_to_selector_key = Put(@, fd, key)]
                  IN  Returned(base_register_or_modify(S1, fd, events, data),
                               key)
             ELSE Returned(S, key)

\* _SlintSelector.select: events is what the base selector reports, a set of
\* (key, mask) pairs
select(S, events) ==
    { <<S.fd_to_selector_key[e[1].fd], e[2]>> :
        e \in { e \in events : /\ e[1].fd # WakeupReader
                               /\ e[1].fd \in DOMAIN S.fd_to_selector_key } }

\* what the base selector can report: any of its keys, the wake-up reader
\* only after a byte was sent to it
BaseEvents(S) ==
    SUBSET { <<S.base_selector[fd], S.base_selector[fd].events>> :
                fd \in { fd \in DOMAIN S.base_selector :
                            fd = WakeupReader => S.wakeup_pending } }

\* _SlintSelector.read_notify / write_notify: the handle of the stored
\* key's data that is run
notify(S, fd) == S.fd_to_selector_key[fd].data

InitSelector ==
    /\ InitLoop /\ InitModelIdle /\ InitApiIdle /\ InitWindow /\ InitUtilIdle
    /\ InitObjIdle
    /\ selector = NewSelector /\ sel_op = NoCall /\ sel_given = <<>>

selothers == <<loopvars, modelvars, apivars, winvars, utilvars, objvars>>

SelectorRegister ==
    /\ \E fd \in FDs, events \in EventMasks, data \in KeyData :
        LET r == register(selector, fd, events, data)
        IN  /\ selector' = r.sel
            /\ sel_op' = [op |-> "register", fd |-> fd, events |-> events,
                          data |-> data, raised |-> r.raised, key |-> r.key]
            /\ sel_given' = Put(sel_given, fd, SelectorKey(fd, events, data))
    /\ UNCHANGED selothers

SelectorUnregister ==
    /\ \E fd \in FDs :
        LET r == unregister(selector, fd)
        IN  /\ selector' = r.sel
            /\ sel_op' = [op |-> "unregister", fd |-> fd,
                          raised |-> r.raised, key |-> r.key]
            /\ sel_given' = Drop(sel_given, fd)
    /\ UNCHANGED selothers

SelectorModify ==
    /\ \E fd \in FDs, events \in EventMasks, data \in KeyData :
        LET r == modify(selector, fd, events, data)
        IN  /\ selector' = r.sel
            /\ sel_op' = [op |-> "modify", fd |-> fd, events |-> events,
                          data |-> data, raised |-> r.raised, key |-> r.key]
            /\ sel_given' = IF r.raised THEN sel_given
                            ELSE Put(sel_given, fd,
                                     SelectorKey(fd, events, data))
    /\ UNCHANGED selothers

\* _SlintSelector._wakeup: a byte is sent to the wake-up socket
SelectorWakeup ==
    /\ ~selector.wakeup_pending
    /\ selector' = [selector EXCEPT !.wakeup_pending = TRUE]
    /\ sel_op' = [op |-> "_wakeup"]
    /\ UNCHANGED <<sel_given, selothers>>

\* select(): the wake-up socket is drained when the base selector reports it
SelectorSelect ==
    /\ \E events \in BaseEvents(selector) :
        /\ selector' =
             IF \E e \in events : e[1].fd = WakeupReader
             THEN [selector EXCEPT !.wakeup_pending = FALSE] ELSE selector
        /\ sel_op' = [op |-> "select", events |-> events,
                      ready |-> select(selector, events)]
    /\ UNCHANGED <<sel_given, selothers>>

\* the AsyncAdapter of fd reports it readable: read_notify runs the reader
\* of the stored key's data and wakes the selector up
SelectorReadNotify ==
    /\ \E fd \in DOMAIN selector.adapters :
        /\ selector.adapters[fd].wait_for_readable
        /\ sel_op' = [op |-> "read_notify", fd |-> fd,
                      ran |-> notify(selector, fd)]
    /\ selector' = [selector EXCEPT !.wakeup_pending = TRUE]
    /\ UNCHANGED <<sel_given, selothers>>

\* the AsyncAdapter of fd reports it writable: write_notify
SelectorWriteNotify ==
    /\ \E fd \in DOMAIN selector.adapters :
        /\ selector.adapters[fd].wait_for_writable
        /\ sel_op' = [op |-> "write_notify", fd |-> fd,
                      ran |-> notify(selector, fd)]
    /\ selector' = [selector EXCEPT !.wakeup_pending = TRUE]
    /\ UNCHANGED <<sel_given, selothers>>

NextSelector ==
    \/ SelectorRegister
    \/ SelectorUnregister
    \/ SelectorModify
    \/ SelectorWakeup
    \/ SelectorSelect
    \/ SelectorReadNotify
    \/ SelectorWriteNotify

SelectorSpec == InitSelector /\ [][NextSelector]_vars

\* C22: after modify(fileobj, events, data) on a registered file object the
\* key modify returns and the key get_map() holds carry the given events
\* and data, and so does every key select() or a notification uses later
C22_ModifyTakesEffect ==
    /\ (sel_op.op = "modify" /\ ~sel_op.raised) =>
          /\ sel_op.key = SelectorKey(sel_op.fd, sel_op.events, sel_op.data)
          /\ selector.fd_to_selector_key[sel_op.fd] =
                SelectorKey(sel_op.fd, sel_op.events, sel_op.data)
    /\ sel_op.op = "select" =>
          \A r \in sel_op.ready : r[1] = sel_given[r[1].fd]
    /\ sel_op.op \in {"read_notify", "write_notify"} =>
          sel_op.ran = sel_given[sel_op.fd].data

PendingSoon == tasks_now \o soon_tasks

\* C23: a handle scheduled by call_soon is run exactly once: no handle
\* waits twice in the lists _flush_soon_tasks runs, and none is left in
\* _soon_tasks once the native loop has returned, when nothing flushes
\* that list any more
C23_CallSoonHandlesRun ==
    /\ \A i, j \in 1..Len(PendingSoon) :
          PendingSoon[i].id = PendingSoon[j].id => i = j
    /\ phase \in {"core_returned", "closing", "returned"} => soon_tasks = <<>>

\* ------------------------------------------------------------------------
\* loop.py: SlintEventLoop under any sequence of run_forever,
\* run_until_complete, stop and call_later calls
\* ------------------------------------------------------------------------

\* SlintEventLoop.__init__
NewLoop ==
    [is_running |-> FALSE, timers |-> {}, stop_run_forever_event |-> FALSE,
     core_loop_started |-> FALSE, core_loop_running |-> FALSE,
     stopping |-> FALSE]

NoRun == [kind |-> "none", mode |-> "none", future |-> "none",
          stopped |-> FALSE]
NoHist == [runs |-> 0, core_entries |-> 0, result |-> "none",
           stopped |-> FALSE]

\* SlintEventLoop.run_forever up to the loop it enters: asyncio's base
\* run_forever once the core loop has started, and else the native loop
ev_run_forever_always_core(S) ==
    [loop |-> [S EXCEPT !.is_running = TRUE, !.core_loop_started = TRUE,
                        !.core_loop_running = TRUE,
                        !.stop_run_forever_event = FALSE],
     mode |-> "core"]

ev_run_forever(S) ==
    IF S.core_loop_started
    THEN [loop |-> S, mode |-> "base"]
    ELSE [loop |-> [S EXCEPT !.is_running = TRUE, !.core_loop_started = TRUE,
                             !.core_loop_running = TRUE,
                             !.stop_run_forever_event = FALSE],
          mode |-> "core"]

\* the finally block of SlintEventLoop.run_forever
ev_run_forever_finally(S) ==
    [S EXCEPT !.core_loop_running = FALSE, !.is_running = FALSE,
              !.stopping = FALSE]

\* the end of asyncio's base run_forever: where it calls the hook
\* _run_forever_cleanup, the override of SlintEventLoop does nothing; where
\* it has no hooks, its own finally block clears _stopping
base_run_forever_cleanup(S, hooks) ==
    IF hooks THEN S ELSE [S EXCEPT !.stopping = FALSE]

\* SlintEventLoop.stop
ev_stop(S) ==
    [S EXCEPT !.stop_run_forever_event =
                  IF S.core_loop_started /\ S.core_loop_running THEN TRUE
                  ELSE @,
              !.stopping = TRUE]

\* SlintEventLoop.is_running
ev_is_running(S) == S.is_running

\* the tail of asyncio's base run_until_complete
base_run_until_complete_result(fut_state) ==
    IF fut_state = "done" THEN "None" ELSE "RuntimeError"

\* a handle of call_later: who schedules it, and what has happened to it
NewHandle(by) ==
    [by |-> by, cancelled |-> FALSE, fired |-> FALSE, runs |-> 0,
     ran_cancelled |-> FALSE]

\* handle._run(), as timer_done_cb and asyncio's _run_once call it
handle_run(h) ==
    [h EXCEPT !.runs = @ + 1, !.ran_cancelled = h.cancelled]

\* SlintEventLoop.call_later: the new handle is the last of H; its
\* core.Timer is known by the handle's index
ev_call_later(S, H) ==
    IF UsesCoreScheduler(S.core_loop_started, S.core_loop_running)
    THEN [loop |-> [S EXCEPT !.timers = @ \cup {Len(H) + 1}],
          handles |-> Append(H, NewHandle("core"))]
    ELSE [loop |-> S, handles |-> Append(H, NewHandle("asyncio"))]

\* timer_done_cb of call_later, for the timer of handle i
timer_done_cb_ignoring_cancel(S, H, i) ==
    [loop |-> [S EXCEPT !.timers = @ \ {i}],
     handles |-> [H EXCEPT ![i] = [handle_run(@) EXCEPT !.fired = TRUE]]]

timer_done_cb(S, H, i) ==
    [loop |-> [S EXCEPT !.timers = @ \ {i}],
     handles |-> [H EXCEPT ![i] =
                    [(IF ~H[i].cancelled THEN handle_run(@) ELSE @)
                        EXCEPT !.fired = TRUE]]]

InitEventLoop ==
    /\ InitLoop /\ InitModelIdle /\ InitApiIdle /\ InitWindow /\ InitUtilIdle
    /\ InitSelectorIdle
    /\ evloop = NewLoop /\ run = NoRun /\ hist = NoHist /\ handles = <<>>
    /\ asyncio_hooks \in BOOLEAN

objothers == <<loopvars, modelvars, apivars, winvars, utilvars, selvars,
               asyncio_hooks>>

\* loop.run_forever() is called while no run is in progress
RunForever ==
    /\ run.kind = "none" /\ hist.runs < MaxRuns
    /\ LET r == ev_run_forever(evloop)
       IN  /\ evloop' = r.loop
           /\ run' = [kind |-> "run_forever", mode |-> r.mode,
                      future |-> "none", stopped |-> FALSE]
           /\ hist' = [hist EXCEPT !.runs = @ + 1,
                          !.core_entries = IF r.mode = "core" THEN @ + 1 ELSE @]
    /\ UNCHANGED <<handles, objothers>>

\* loop.run_until_complete(future) is called while no run is in progress:
\* both variants add a done callback that stops the loop and call
\* run_forever
RunUntilComplete ==
    /\ run.kind = "none" /\ hist.runs < MaxRuns
    /\ LET r == ev_run_forever(evloop)
       IN  /\ evloop' = r.loop
           /\ run' = [kind |-> "run_until_complete", mode |-> r.mode,
                      future |-> "pending", stopped |-> FALSE]
           /\ hist' = [hist EXCEPT !.runs = @ + 1,
                          !.core_entries = IF r.mode = "core" THEN @ + 1 ELSE @]
    /\ UNCHANGED <<handles, objothers>>

\* a callback of the running loop calls loop.stop()
LoopStop ==
    /\ run.kind # "none"
    /\ evloop' = ev_stop(evloop)
    /\ run' = [run EXCEPT !.stopped = TRUE]
    /\ UNCHANGED <<hist, handles, objothers>>

\* the future of run_until_complete completes: its done callback stops the
\* loop
FutureCompletes ==
    /\ run.future = "pending"
    /\ evloop' = ev_stop(evloop)
    /\ run' = [run EXCEPT !.future = "done", !.stopped = TRUE]
    /\ UNCHANGED <<hist, handles, objothers>>

\* core.run_event_loop() returns, after loop_stopper or on its own: the
\* finally block of run_forever and the tail of run_until_complete
CoreRunReturns ==
    /\ run.mode = "core"
    /\ evloop' = ev_run_forever_finally(evloop)
    /\ hist' = [hist EXCEPT
                  !.result = IF run.kind = "run_forever" THEN "None"
                             ELSE run_until_complete_result(
                                      run.future, evloop.stop_run_forever_event),
                  !.stopped = run.stopped]
    /\ run' = NoRun
    /\ UNCHANGED <<handles, objothers>>

\* asyncio's base run_forever finds _stopping set after an iteration
BaseRunReturns ==
    /\ run.mode = "base" /\ evloop.stopping
    /\ evloop' = base_run_forever_cleanup(evloop, asyncio_hooks)
    /\ hist' = [hist EXCEPT
                  !.result = IF run.kind = "run_forever" THEN "None"
                             ELSE base_run_until_complete_result(run.future),
                  !.stopped = run.stopped]
    /\ run' = NoRun
    /\ UNCHANGED <<handles, objothers>>

\* loop.call_later(delay, callback)
CallLater ==
    /\ Len(handles) < MaxHandles
    /\ LET r == ev_call_later(evloop, handles)
       IN  evloop' = r.loop /\ handles' = r.handles
    /\ UNCHANGED <<run, hist, objothers>>

\* handle.cancel()
CancelHandle ==
    /\ \E i \in 1..Len(handles) :
        /\ ~handles[i].cancelled
        /\ handles' = [handles EXCEPT ![i].cancelled = TRUE]
    /\ UNCHANGED <<evloop, run, hist, objothers>>

\* the native loop fires the single-shot timer of a handle
CoreTimerFires ==
    /\ run.mode = "core"
    /\ \E i \in 1..Len(handles) :
        /\ handles[i].by = "core" /\ ~handles[i].fired
        /\ LET r == timer_done_cb(evloop, handles, i)
           IN  evloop' = r.loop /\ handles' = r.handles
    /\ UNCHANGED <<run, hist, objothers>>

\* asyncio's _run_once takes a due handle of its own: it runs it unless it
\* was cancelled
BaseHandleDue ==
    /\ run.mode = "base"
    /\ \E i \in 1..Len(handles) :
        /\ handles[i].by = "asyncio" /\ ~handles[i].fired
        /\ handles' = [handles EXCEPT ![i] =
                          [(IF ~handles[i].cancelled THEN handle_run(@) ELSE @)
                              EXCEPT !.fired = TRUE]]
    /\ UNCHANGED <<evloop, run, hist, objothers>>

NextEventLoop ==
    \/ RunForever
    \/ RunUntilComplete
    \/ LoopStop
    \/ FutureCompletes
    \/ CoreRunReturns
    \/ BaseRunReturns
    \/ CallLater
    \/ CancelHandle
    \/ CoreTimerFires
    \/ BaseHandleDue

EventLoopSpec == InitEventLoop /\ [][NextEventLoop]_vars

\* C24: once a run_forever / run_until_complete call has returned, the
\* stopping flag is clear, and a run_until_complete that ends with its
\* future unfinished was stopped by a stop() made during that call
C24_StopEndsOnlyCurrentRun ==
    run.kind = "none" =>
        /\ ~evloop.stopping
        /\ (hist.result = "RuntimeError") => hist.stopped

\* C24 holds on an interpreter whose base run_forever has no hooks
C24_HoldsWithoutHooks == ~asyncio_hooks => C24_StopEndsOnlyCurrentRun

\* C25: a handle call_later returned while the core loop schedules runs at
\* most once and never after it was cancelled, and its single-shot timer is
\* in _timers from scheduling until it fires and not afterwards
C25_CoreTimerHandles ==
    \A i \in 1..Len(handles) :
        handles[i].by = "core" =>
            /\ handles[i].runs <= 1
            /\ ~handles[i].ran_cancelled
            /\ (i \in evloop.timers) <=> ~handles[i].fired

C25_Witness ==
    \E i, j \in 1..Len(handles) :
        /\ handles[i].by = "core" /\ handles[i].fired
        /\ handles[i].cancelled /\ handles[i].runs = 0
        /\ handles[j].by = "core" /\ handles[j].runs = 1
        /\ evloop.timers = {}

\* C26: _core_loop_running implies _core_loop_started; _core_loop_started
\* stays True once there has been a run; core.run_event_loop() is entered at
\* most once, by the first run, and every later run is asyncio's base
\* run_forever
C26_CoreLoopEnteredOnce ==
    /\ evloop.core_loop_running => evloop.core_loop_started
    /\ hist.runs > 0 => evloop.core_loop_started
    /\ hist.core_entries <= 1
    /\ run.mode = "core" => hist.runs = 1
    /\ (run.kind # "none" /\ hist.runs > 1) => run.mode = "base"

C26_Witness ==
    /\ hist.runs = MaxRuns /\ hist.core_entries = 1
    /\ run.kind = "run_until_complete" /\ run.mode = "base"
    /\ evloop.stopping

\* C27: is_running() is True exactly while a run_forever is executing, be
\* it the native loop or asyncio's base run_forever
C27_IsRunningWhileRunning ==
    ev_is_running(evloop) <=> run.kind # "none"

\* ------------------------------------------------------------------------
\* api.py: decorated methods an instance's class inherits
\* ------------------------------------------------------------------------

\* the decorated methods visible on the instance's class: those of its own
\* dictionary and those of the classes between it and the component class
VisibleMethods(I) ==
    { I.methods[i] : i \in 1..Len(I.methods) }
        \cup { I.inherited[i] : i \in 1..Len(I.inherited) }

\* C29: after construction every decorated method visible on the
\* instance's class is the handler of the callback its slint.callback
\* information names, whether the class defines or inherits the method
C29_InheritedCallbacksConnected ==
    instance.constructed =>
        \A m \in VisibleMethods(instance) :
            LET info == callback_info(m)
                t == Target(info.global_name, info.name)
            IN  (t \in Targets /\ ~NamedByKwargs(instance, t)) =>
                    instance.callbacks[t] = MethodHandler(m)

====
